---- MODULE Spec2Model ----
(***************************************************************************)
(* A model of the action-mediation core of @profullstack/ai:               *)
(*   lib/config.js          (src/unnamed/part_001)                         *)
(*   lib/actions.js         (src/unnamed/part_002, lines 1-529)            *)
(*   lib/enhanced-agent.js  (src/unnamed/part_002, lines 530-988)          *)
(*   lib/agent.js           (src/lib/agent.js, lines 1-116)                *)
(*                                                                         *)
(* JavaScript strings are modelled as sequences of one-character strings,  *)
(* so that split, trim, indexOf and includes are computed, not assumed.    *)
(***************************************************************************)
EXTENDS Integers, Sequences, FiniteSets, TLC

VARIABLES
  permissions,       \* config.permissions || {}: action type -> level ("unset" = key absent)
  approvedCommands,  \* config.approvedCommands as persisted: absent, an array, or a number
  fs,                \* the file system: existing path -> content
  last,              \* the most recent call of an exported operation and what it did
  probe,             \* input and result of the pure function under test
  actions,           \* processActions: the action tokens extracted from the reply
  run,               \* processActions: how far each action has got
  before,            \* the approved list when processActions was called
  proc,              \* processActions: "idle", "looping", "returned" or "threw"
  response,          \* processActions: the reply text it was given
  processedResponse  \* processActions: the text it is building

vars == <<permissions, approvedCommands, fs, last, probe, actions, run, before, proc,
          response, processedResponse>>

textVars == <<response, processedResponse>>

agentVars == <<actions, run, before, proc, textVars>>

\* no reply is being processed
Idle ==
  /\ actions = <<>> /\ run = <<>> /\ before = <<>> /\ proc = "idle"
  /\ response = <<>> /\ processedResponse = <<>>

----------------------------------------------------------------------------
(* Strings                                                                 *)

S_ls         == <<"l", "s">>
S_git        == <<"g", "i", "t">>
S_git_status == <<"g", "i", "t", " ", "s", "t", "a", "t", "u", "s">>
S_rm_rf      == <<"r", "m", " ", "-", "r", "f">>
S_5          == <<"5">>
S_ls_la      == <<"l", "s", " ", "-", "l", "a">>
S_a_txt      == <<"a", ".", "t", "x", "t">>
S_x          == <<"x">>
S_y          == <<"y">>

\* the characters String.prototype.trim removes, among those the model uses
WhiteSpace == {" ", "\t", "\n"}

Digits == {"0", "1", "2", "3", "4", "5", "6", "7", "8", "9"}

RECURSIVE TrimStart(_)
TrimStart(s) ==
  IF s = <<>> THEN <<>>
  ELSE IF Head(s) \in WhiteSpace THEN TrimStart(Tail(s)) ELSE s

RECURSIVE TrimEnd(_)
TrimEnd(s) ==
  IF s = <<>> THEN <<>>
  ELSE IF s[Len(s)] \in WhiteSpace THEN TrimEnd(SubSeq(s, 1, Len(s) - 1)) ELSE s

\* String.prototype.trim
Trim(s) == TrimEnd(TrimStart(s))

\* the text before the first whitespace character of any kind
RECURSIVE SplitWhitespaceFirst(_)
SplitWhitespaceFirst(s) ==
  IF s = <<>> THEN <<>>
  ELSE IF Head(s) \in WhiteSpace THEN <<>>
  ELSE <<Head(s)>> \o SplitWhitespaceFirst(Tail(s))

\* s.split(' ')[0]: the text before the first space character (U+0020)
RECURSIVE SplitSpaceFirst(_)
SplitSpaceFirst(s) ==
  IF s = <<>> THEN <<>>
  ELSE IF Head(s) = " " THEN <<>>
  ELSE <<Head(s)>> \o SplitSpaceFirst(Tail(s))

\* Array.prototype.includes / indexOf > -1 on an array of strings
Includes(list, x) == \E i \in 1..Len(list) : list[i] = x

\* Array.prototype.indexOf: the first index (1-based here), 0 when absent
IndexOf(list, x) ==
  IF Includes(list, x)
  THEN CHOOSE i \in 1..Len(list) : list[i] = x /\ \A j \in 1..(i - 1) : list[j] # x
  ELSE 0

\* a JavaScript value used as a condition: null, undefined and '' are falsy
Truthy(s) == s # <<>>

----------------------------------------------------------------------------
(* lib/config.js                                                           *)

\* !isNaN(v) && !isNaN(parseFloat(v)) for a string v with no exponent, radix
\* prefix or Infinity in it: Number(v) and parseFloat(v) are both numbers
\* exactly when the trimmed text is an optional sign and a decimal numeral.
IsNumericString(s) ==
  LET t == Trim(s)
      body == IF t # <<>> /\ Head(t) \in {"-", "+"} THEN Tail(t) ELSE t
  IN /\ \A i \in 1..Len(body) : body[i] \in Digits \cup {"."}
     /\ \E i \in 1..Len(body) : body[i] \in Digits
     /\ Cardinality({i \in 1..Len(body) : body[i] = "."}) <= 1

\* parseFloat(v) is 0 for a numeric string v
IsZeroString(s) == \A i \in 1..Len(s) : s[i] \in Digits => s[i] = "0"

AbsentList == [kind |-> "absent", list |-> <<>>]
ArrayList(l) == [kind |-> "array", list |-> l]
NumberValue == [kind |-> "number", list |-> <<>>]

\* updateConfig('approvedCommands', array): the value conversion coerces its
\* argument to a string (an array joins its elements with ','), so a
\* one-element array holding a numeric string is stored as that number.
\* The number 0 is falsy: every reader takes the defaults for it, as it
\* does for an absent key.
updateConfigApprovedCommands(l) ==
  IF Len(l) = 1 /\ IsNumericString(l[1])
  THEN IF IsZeroString(l[1]) THEN AbsentList ELSE NumberValue
  ELSE ArrayList(l)

\* updateConfig('permissions', object): an object never converts
updateConfigPermissions(perms) == perms

\* updateConfig('permissions.<actionType>', value) for a string value that
\* is neither 'true', 'false' nor numeric: the nested key is set to it
updateConfigNested(perms, actionType, value) == [perms EXCEPT ![actionType] = value]

----------------------------------------------------------------------------
(* lib/actions.js: the permission store and the command matcher            *)

ACTION_TYPES == {"file_read", "file_write", "file_delete", "command_exec"}

\* the model's default list: one entry, a multi-token one, of the 38 entries
\* of the source
DEFAULT_APPROVED_COMMANDS == <<S_git_status>>

NoPermissions == [t \in ACTION_TYPES |-> "unset"]

isActionAllowedForever(perms, actionType) == perms[actionType] = "allow_forever"

isAutoApproveEnabled(perms, actionType) == perms[actionType] = "auto_approve"

\* config.approvedCommands || DEFAULT_APPROVED_COMMANDS is an array
IsArray(ac) == ac.kind # "number"

\* getApprovedCommands, for a persisted value that is absent or an array
getApprovedCommands(ac) ==
  IF ac.kind = "absent" THEN DEFAULT_APPROVED_COMMANDS ELSE ac.list

\* a matcher that takes exact entries only
isCommandApprovedIn_ExactOnly(list, command) == Includes(list, command)

\* isCommandApproved on an array of entries
isCommandApprovedIn(list, command) ==
  \/ Includes(list, command)
  \/ \E i \in 1..Len(list) : SplitSpaceFirst(command) = SplitSpaceFirst(list[i])

\* isCommandApproved(command); on a number, .includes is not a function and
\* the call throws (callers test IsArray first)
isCommandApproved(ac, command) == isCommandApprovedIn(getApprovedCommands(ac), command)

\* addApprovedCommand: [threw, ac]
addApprovedCommand(ac, command) ==
  IF ~IsArray(ac) THEN [threw |-> TRUE, ac |-> ac]
  ELSE LET l == getApprovedCommands(ac) IN
       IF ~Includes(l, command)
       THEN [threw |-> FALSE, ac |-> updateConfigApprovedCommands(Append(l, command))]
       ELSE [threw |-> FALSE, ac |-> ac]

\* removeApprovedCommand: [threw, ac]
removeApprovedCommand(ac, command) ==
  IF ~IsArray(ac) THEN [threw |-> TRUE, ac |-> ac]
  ELSE LET l == getApprovedCommands(ac)
           i == IndexOf(l, command) IN
       IF i > 0
       THEN [threw |-> FALSE,
             ac |-> updateConfigApprovedCommands(SubSeq(l, 1, i - 1) \o SubSeq(l, i + 1, Len(l)))]
       ELSE [threw |-> FALSE, ac |-> ac]

resetApprovedCommands == updateConfigApprovedCommands(DEFAULT_APPROVED_COMMANDS)

setActionAllowedForever(perms, actionType) ==
  updateConfigPermissions([perms EXCEPT ![actionType] = "allow_forever"])

\* a setter that writes a permissions object holding the one key only
setAutoApprove_DropsOtherKeys(perms, actionType) ==
  updateConfigPermissions([t \in DOMAIN perms |->
                             IF t = actionType THEN "auto_approve" ELSE "unset"])

setAutoApprove(perms, actionType) ==
  updateConfigPermissions([perms EXCEPT ![actionType] = "auto_approve"])

resetPermissions == updateConfigPermissions(NoPermissions)

----------------------------------------------------------------------------
(* lib/actions.js: the authorization gate                                  *)

\* what the prompt can return: a choice it offered, or nothing (cancelled)
Answers == {"allow", "disallow", "allow_forever", "auto_approve", "approve_command", "cancel"}

\* the choices array of promptForPermission
Choices(ac, actionType, command) ==
  {"allow", "disallow", "allow_forever", "auto_approve"}
    \cup (IF actionType = "command_exec" /\ Truthy(command) /\ ~isCommandApproved(ac, command)
          THEN {"approve_command"} ELSE {})

GateResult(threw, prompted, answer, ret, perms, ac) ==
  [threw |-> threw, prompted |-> prompted, answer |-> answer, ret |-> ret,
   permissions |-> perms, approvedCommands |-> ac]

\* promptForPermission(actionType, description, command), the user answering
\* `answer` if the select prompt is shown; ret is the level returned
promptForPermission(perms, ac, actionType, command, answer) ==
  LET forCommand == actionType = "command_exec" /\ Truthy(command) IN
  IF forCommand /\ ~IsArray(ac)
  THEN GateResult(TRUE, FALSE, "none", "none", perms, ac)
  ELSE IF forCommand /\ isCommandApproved(ac, command) /\ isAutoApproveEnabled(perms, actionType)
  THEN GateResult(FALSE, FALSE, "none", "allow", perms, ac)
  ELSE IF answer = "allow_forever"
  THEN GateResult(FALSE, TRUE, answer, "allow_forever",
                  setActionAllowedForever(perms, actionType), ac)
  ELSE IF answer = "auto_approve"
  THEN GateResult(FALSE, TRUE, answer, "allow", setAutoApprove(perms, actionType), ac)
  ELSE IF answer = "approve_command" /\ Truthy(command)
  THEN LET r == addApprovedCommand(ac, command) IN
       GateResult(r.threw, TRUE, answer, IF r.threw THEN "none" ELSE "allow", perms, r.ac)
  ELSE IF answer = "cancel"
  THEN GateResult(FALSE, TRUE, answer, "disallow", perms, ac)
  ELSE GateResult(FALSE, TRUE, answer, answer, perms, ac)

\* a gate that takes the answer 'allow' only for permission
checkPermission_AllowOnly(perms, ac, actionType, command, answer) ==
  IF isActionAllowedForever(perms, actionType)
  THEN GateResult(FALSE, FALSE, "none", "allow", perms, ac) @@ [allowed |-> TRUE]
  ELSE LET r == promptForPermission(perms, ac, actionType, command, answer) IN
       r @@ [allowed |-> ~r.threw /\ r.ret = "allow"]

\* checkPermission(actionType, description, command): allowed is the boolean
\* it resolves to (meaningless when it threw)
checkPermission(perms, ac, actionType, command, answer) ==
  IF isActionAllowedForever(perms, actionType)
  THEN GateResult(FALSE, FALSE, "none", "allow", perms, ac) @@ [allowed |-> TRUE]
  ELSE IF actionType = "command_exec" /\ Truthy(command)
          /\ isAutoApproveEnabled(perms, actionType) /\ ~IsArray(ac)
  THEN GateResult(TRUE, FALSE, "none", "none", perms, ac) @@ [allowed |-> FALSE]
  ELSE IF actionType = "command_exec" /\ Truthy(command)
          /\ isAutoApproveEnabled(perms, actionType) /\ isCommandApproved(ac, command)
  THEN GateResult(FALSE, FALSE, "none", "allow", perms, ac) @@ [allowed |-> TRUE]
  ELSE LET r == promptForPermission(perms, ac, actionType, command, answer) IN
       r @@ [allowed |-> ~r.threw /\ r.ret \in {"allow", "allow_forever"}]

\* the answers the user can give during checkPermission
CheckAnswers(perms, ac, actionType, command) ==
  IF checkPermission(perms, ac, actionType, command, "cancel").prompted
  THEN Choices(ac, actionType, command) \cup {"cancel"}
  ELSE {"none"}

----------------------------------------------------------------------------
(* lib/actions.js: the file and command actuator                           *)

\* what a call of an exported operation did: the gate's result, the file
\* system it left, the system call it made ("none" if it made none), the
\* error it threw ("none" if it returned) and the value it returned
Outcome(r, files, sys, error, value) ==
  [permissions |-> r.permissions, approvedCommands |-> r.approvedCommands,
   prompted |-> r.prompted, answer |-> r.answer,
   result |-> IF r.threw THEN "threw" ELSE IF r.allowed THEN "allowed" ELSE "denied",
   fs |-> files, sys |-> sys, error |-> error, value |-> value]

\* the part of readFile, writeFile, deleteFile and executeCommand before the
\* try block: a gate that throws propagates, a denial throws Permission denied
Refused(r, files) ==
  Outcome(r, files, "none", IF r.threw THEN "TypeError" ELSE "PermissionDenied", <<>>)

readFile(perms, ac, files, filePath, answer) ==
  LET r == checkPermission(perms, ac, "file_read", <<>>, answer) IN
  IF r.threw \/ ~r.allowed THEN Refused(r, files)
  ELSE IF filePath \in DOMAIN files
       THEN Outcome(r, files, "fs.readFile", "none", files[filePath])
       ELSE Outcome(r, files, "fs.readFile", "IOFailure", <<>>)

\* a writeFile that writes whatever the gate answered
writeFile_Ungated(perms, ac, files, filePath, content, dirOk, answer) ==
  LET r == checkPermission(perms, ac, "file_write", <<>>, answer) IN
  IF r.threw THEN Refused(r, files)
  ELSE Outcome(r, [q \in DOMAIN files \cup {filePath} |->
                     IF q = filePath THEN content ELSE files[q]],
               "fs.writeFile", "none", <<>>)

\* fs.writeFile creates or replaces the file; dirOk is whether the path can
\* be written at all
writeFile(perms, ac, files, filePath, content, dirOk, answer) ==
  LET r == checkPermission(perms, ac, "file_write", <<>>, answer) IN
  IF r.threw \/ ~r.allowed THEN Refused(r, files)
  ELSE IF dirOk
       THEN Outcome(r, [q \in DOMAIN files \cup {filePath} |->
                          IF q = filePath THEN content ELSE files[q]],
                    "fs.writeFile", "none", <<>>)
       ELSE Outcome(r, files, "fs.writeFile", "IOFailure", <<>>)

deleteFile(perms, ac, files, filePath, answer) ==
  LET r == checkPermission(perms, ac, "file_delete", <<>>, answer) IN
  IF r.threw \/ ~r.allowed THEN Refused(r, files)
  ELSE IF filePath \in DOMAIN files
       THEN Outcome(r, [q \in DOMAIN files \ {filePath} |-> files[q]],
                    "fs.unlink", "none", <<>>)
       ELSE Outcome(r, files, "fs.unlink", "IOFailure", <<>>)

\* how a child process can end
ChildEnds == {"exit0", "nonzero", "spawnError", "timeout"}

\* executeCommand(command, options, onOutput): streaming is whether onOutput
\* is a function, child how the process ends; every failure inside the try
\* block is rethrown as Command execution failed
executeCommand(perms, ac, files, command, streaming, child, answer) ==
  LET r == checkPermission(perms, ac, "command_exec", command, answer) IN
  IF r.threw \/ ~r.allowed THEN Refused(r, files)
  ELSE Outcome(r, files, IF streaming THEN "spawn" ELSE "exec",
               IF child = "exit0" THEN "none" ELSE "ExecutionFailure", <<>>)

----------------------------------------------------------------------------
(* The exported operations of lib/actions.js and lib/config.js called one  *)
(* after another by a single session (specification SpecGate)              *)

\* bound on the length of the approved list
MaxApproved == 2

GatePaths == {S_a_txt}
GateContents == {S_x}
GateCommands == {<<>>, S_git, S_5}
EditCommands == {S_git_status, S_5}

NoProbe == [fn |-> "none"]

Call(op, arg, actionType, o) ==
  [op |-> op, arg |-> arg, actionType |-> actionType, prompted |-> o.prompted,
   answer |-> o.answer, result |-> o.result, sys |-> o.sys, error |-> o.error]

ConfigCall(op, arg, threw) ==
  [op |-> op, arg |-> arg, actionType |-> "none", prompted |-> FALSE,
   answer |-> "none", result |-> "n/a", sys |-> "none",
   error |-> IF threw THEN "TypeError" ELSE "none"]

\* the list may grow by one entry
MayGrow(ac) == IsArray(ac) => Len(getApprovedCommands(ac)) < MaxApproved

\* the state a gated call leaves
Gated(op, arg, actionType, o) ==
  /\ o.answer = "approve_command" => MayGrow(approvedCommands)
  /\ permissions' = o.permissions
  /\ approvedCommands' = o.approvedCommands
  /\ fs' = o.fs
  /\ last' = Call(op, arg, actionType, o)
  /\ UNCHANGED <<probe, agentVars>>

ReadFile(filePath) ==
  \E answer \in CheckAnswers(permissions, approvedCommands, "file_read", <<>>) :
    Gated("readFile", filePath, "file_read",
          readFile(permissions, approvedCommands, fs, filePath, answer))

WriteFile(filePath, content) ==
  \E answer \in CheckAnswers(permissions, approvedCommands, "file_write", <<>>),
     dirOk \in BOOLEAN :
    Gated("writeFile", filePath, "file_write",
          writeFile(permissions, approvedCommands, fs, filePath, content, dirOk, answer))

DeleteFile(filePath) ==
  \E answer \in CheckAnswers(permissions, approvedCommands, "file_delete", <<>>) :
    Gated("deleteFile", filePath, "file_delete",
          deleteFile(permissions, approvedCommands, fs, filePath, answer))

ExecuteCommand(command) ==
  \E answer \in CheckAnswers(permissions, approvedCommands, "command_exec", command),
     child \in {"exit0", "nonzero"} :
    Gated("executeCommand", command, "command_exec",
          executeCommand(permissions, approvedCommands, fs, command, FALSE, child, answer))

AddApprovedCommand(command) ==
  LET r == addApprovedCommand(approvedCommands, command) IN
  /\ MayGrow(approvedCommands)
  /\ approvedCommands' = r.ac
  /\ last' = ConfigCall("addApprovedCommand", command, r.threw)
  /\ UNCHANGED <<permissions, fs, probe, agentVars>>

RemoveApprovedCommand(command) ==
  LET r == removeApprovedCommand(approvedCommands, command) IN
  /\ approvedCommands' = r.ac
  /\ last' = ConfigCall("removeApprovedCommand", command, r.threw)
  /\ UNCHANGED <<permissions, fs, probe, agentVars>>

ResetApprovedCommands ==
  /\ approvedCommands' = resetApprovedCommands
  /\ last' = ConfigCall("resetApprovedCommands", <<>>, FALSE)
  /\ UNCHANGED <<permissions, fs, probe, agentVars>>

ResetPermissions ==
  /\ permissions' = resetPermissions
  /\ last' = ConfigCall("resetPermissions", <<>>, FALSE)
  /\ UNCHANGED <<approvedCommands, fs, probe, agentVars>>

\* resetConfig: saveConfig(DEFAULT_CONFIG), which has neither key
ResetConfig ==
  /\ permissions' = NoPermissions
  /\ approvedCommands' = AbsentList
  /\ last' = ConfigCall("resetConfig", <<>>, FALSE)
  /\ UNCHANGED <<fs, probe, agentVars>>

\* ai config --set permissions.<actionType> <level>
UpdateConfig(actionType, level) ==
  /\ permissions' = updateConfigNested(permissions, actionType, level)
  /\ last' = ConfigCall("updateConfig", <<>>, FALSE)
  /\ UNCHANGED <<approvedCommands, fs, probe, agentVars>>

InitGate ==
  /\ permissions = NoPermissions
  /\ approvedCommands = AbsentList
  /\ fs = <<>>
  /\ last = ConfigCall("none", <<>>, FALSE)
  /\ probe = NoProbe
  /\ Idle

NextGate ==
  \/ \E p \in GatePaths : ReadFile(p)
  \/ \E p \in GatePaths, c \in GateContents : WriteFile(p, c)
  \/ \E p \in GatePaths : DeleteFile(p)
  \/ \E c \in GateCommands : ExecuteCommand(c)
  \/ \E c \in EditCommands : AddApprovedCommand(c)
  \/ \E c \in EditCommands : RemoveApprovedCommand(c)
  \/ ResetApprovedCommands
  \/ ResetPermissions
  \/ ResetConfig
  \/ \E t \in ACTION_TYPES, l \in {"allow_forever", "auto_approve"} : UpdateConfig(t, l)

SpecGate == InitGate /\ [][NextGate]_vars

----------------------------------------------------------------------------
(* Properties of the gate and the actuator (SpecGate)                      *)

IsGatedCall(l) == l.op \in {"readFile", "writeFile", "deleteFile", "executeCommand"}

\* the command a gated call hands to checkPermission (none for a file)
CommandOf(l) == IF l.op = "executeCommand" THEN l.arg ELSE <<>>

\* C1: a gated operation makes its system call only if its own permission
\* check resolved allowed; a denied call throws Permission denied, makes no
\* system call and leaves the file system as it was.
C1_DeniedCallDoesNothing ==
  [][IsGatedCall(last') =>
       /\ (last'.sys # "none" => last'.result = "allowed")
       /\ (last'.result = "denied" =>
             last'.error = "PermissionDenied" /\ last'.sys = "none" /\ fs' = fs)]_vars

\* a denied delete of a file that exists, which is still there
C1_Witness ==
  /\ last.op = "deleteFile" /\ last.result = "denied"
  /\ last.arg \in DOMAIN fs

\* the conditions under which C2 lets checkPermission skip the prompt
Bypasses(perms, ac, actionType, command) ==
  \/ perms[actionType] = "allow_forever"
  \/ /\ actionType = "command_exec" /\ command # <<>>
     /\ perms[actionType] = "auto_approve"
     /\ IsArray(ac) /\ isCommandApprovedIn(getApprovedCommands(ac), command)

\* C2: checkPermission resolves without prompting exactly when the type has
\* a forever grant, or it is a command execution with a non-empty command,
\* auto-approve on command_exec and a command matching the approved list;
\* in every other state it prompts.
C2_PromptUnlessGrantedOrAutoApproved ==
  [][IsGatedCall(last') =>
       LET bypass == Bypasses(permissions, approvedCommands,
                              last'.actionType, CommandOf(last')) IN
       /\ (last'.result = "allowed" /\ ~last'.prompted) <=> bypass
       /\ ~bypass => last'.prompted]_vars

RewritesPermissions(l) == l.op \in {"resetPermissions", "resetConfig", "updateConfig"}

AllowingAnswers == {"allow", "allow_forever", "auto_approve", "approve_command"}

\* C5: a prompted check resolves allowed exactly for the answers allow,
\* allow_forever, auto_approve and approve_command, and resolves denied,
\* without throwing, for disallow and for a cancelled prompt.
C5_AnswerDecides ==
  IsGatedCall(last) /\ last.prompted =>
    \/ last.answer \in AllowingAnswers /\ last.result = "allowed"
    \/ last.answer \in {"disallow", "cancel"} /\ last.result = "denied"

\* a cancelled prompt, resolved denied
C5_Witness ==
  IsGatedCall(last) /\ last.prompted /\ last.answer = "cancel" /\ last.result = "denied"

\* C6: what a prompt persists depends on the answer alone: allow_forever and
\* auto_approve set the type's level and nothing else, approve_command
\* appends the command to the approved list and leaves the permissions,
\* allow, disallow and cancel change neither.
C6_AnswerPersists ==
  [][IsGatedCall(last') /\ last'.prompted =>
       LET t == last'.actionType
           a == last'.answer IN
       /\ a = "allow_forever" =>
            /\ permissions' = [permissions EXCEPT ![t] = "allow_forever"]
            /\ approvedCommands' = approvedCommands
       /\ a = "auto_approve" =>
            /\ permissions' = [permissions EXCEPT ![t] = "auto_approve"]
            /\ approvedCommands' = approvedCommands
       /\ a = "approve_command" =>
            /\ permissions' = permissions
            /\ IsArray(approvedCommands')
            /\ getApprovedCommands(approvedCommands')
                 = Append(getApprovedCommands(approvedCommands), last'.arg)
       /\ a \in {"allow", "disallow", "cancel"} =>
            /\ permissions' = permissions
            /\ approvedCommands' = approvedCommands]_vars

----------------------------------------------------------------------------
(* isCommandApproved as a function of the command and the list             *)
(* (specification SpecMatch)                                               *)

\* bounds on the commands and the lists tried
MaxLen == 3
MaxEntries == 2

MatchAlphabet == {"a", " ", "\t"}

\* every string over the alphabet up to MaxLen, and the commands of the
\* repository's tests
MatchCommands ==
  UNION {[1..n -> MatchAlphabet] : n \in 0..MaxLen}
    \cup {<<"b">>, <<"b", " ", "a">>, S_git, S_git_status, S_ls, S_ls_la, S_rm_rf}

MatchEntries == {<<"a">>, <<"a", " ", "a">>, <<"b">>, S_git_status, S_ls}

MatchLists == UNION {[1..n -> MatchEntries] : n \in 0..MaxEntries}

InitMatch ==
  /\ permissions = NoPermissions
  /\ approvedCommands = AbsentList
  /\ fs = <<>>
  /\ last = ConfigCall("none", <<>>, FALSE)
  /\ \E c \in MatchCommands, l \in MatchLists :
       probe = [fn |-> "input", command |-> c, list |-> l, result |-> FALSE]
  /\ Idle

\* isCommandApproved(command) with config.approvedCommands = list
Match ==
  /\ probe.fn = "input"
  /\ probe' = [probe EXCEPT !.fn = "isCommandApproved",
                            !.result = isCommandApproved(ArrayList(probe.list), probe.command)]
  /\ UNCHANGED <<permissions, approvedCommands, fs, last, agentVars>>

NextMatch == Match

SpecMatch == InitMatch /\ [][NextMatch]_vars

Matched == probe.fn = "isCommandApproved"

\* the first whitespace-delimited token of a string: leading whitespace
\* skipped, then everything up to the next whitespace character
FirstToken(s) ==
  LET t == TrimStart(s)
      ends == {k \in 1..Len(t) : t[k] \in WhiteSpace}
      n == IF ends = {} THEN Len(t) ELSE (CHOOSE k \in ends : \A j \in ends : k <= j) - 1
  IN SubSeq(t, 1, n)

\* the text of a string before its first space character
BeforeFirstSpace(s) ==
  LET ends == {k \in 1..Len(s) : s[k] = " "}
      n == IF ends = {} THEN Len(s) ELSE (CHOOSE k \in ends : \A j \in ends : k <= j) - 1
  IN SubSeq(s, 1, n)

\* C7 as stated: a command is approved exactly when it is an entry of the
\* list or its first whitespace-delimited token is that of some entry.
C7_FirstTokenMatch ==
  Matched =>
    (probe.result <=>
       \/ \E i \in 1..Len(probe.list) : probe.list[i] = probe.command
       \/ \E i \in 1..Len(probe.list) :
            FirstToken(probe.command) = FirstToken(probe.list[i]))

\* C7 amended: a command is approved exactly when it is an entry of the
\* list or its text before the first space character is that of some entry
\* (a tab does not delimit, and a leading space makes the first part empty).
C7_FirstSpaceSegmentMatch ==
  Matched =>
    (probe.result <=>
       \/ \E i \in 1..Len(probe.list) : probe.list[i] = probe.command
       \/ \E i \in 1..Len(probe.list) :
            BeforeFirstSpace(probe.command) = BeforeFirstSpace(probe.list[i]))

\* 'ls -la' approved by the entry 'ls' though it is no entry itself
C7_Witness ==
  /\ Matched /\ probe.result
  /\ probe.command = S_ls_la /\ probe.list = <<S_git_status, S_ls>>

----------------------------------------------------------------------------
(* lib/enhanced-agent.js: the handlers of the action tokens                *)

S_rm            == <<"r", "m">>
S_dot           == <<".">>
S_colon         == <<":">>
S_CONTENT_START == <<":", "C", "O", "N", "T", "E", "N", "T", "_", "S", "T", "A", "R", "T", "\n">>
S_CONTENT_END   == <<"\n", "C", "O", "N", "T", "E", "N", "T", "_", "E", "N", "D">>
S_WORKDIR       == <<":", "W", "O", "R", "K", "D", "I", "R", ":">>

\* sub occurs in s at the 1-based position i
OccursAt(s, sub, i) ==
  i + Len(sub) - 1 <= Len(s) /\ SubSeq(s, i, i + Len(sub) - 1) = sub

\* String.prototype.indexOf for a non-empty sub: 0-based, -1 when absent
StringIndexOf(s, sub) ==
  LET hits == {i \in 1..Len(s) : OccursAt(s, sub, i)} IN
  IF hits = {} THEN -1 ELSE (CHOOSE i \in hits : \A j \in hits : i <= j) - 1

\* String.prototype.lastIndexOf for a non-empty sub
StringLastIndexOf(s, sub) ==
  LET hits == {i \in 1..Len(s) : OccursAt(s, sub, i)} IN
  IF hits = {} THEN -1 ELSE (CHOOSE i \in hits : \A j \in hits : i >= j) - 1

\* String.prototype.substring(a, b): both ends clamped to the string, and
\* swapped when a > b
Substring(s, a, b) ==
  LET clamp(n) == IF n < 0 THEN 0 ELSE IF n > Len(s) THEN Len(s) ELSE n
      lo == IF clamp(a) < clamp(b) THEN clamp(a) ELSE clamp(b)
      hi == IF clamp(a) < clamp(b) THEN clamp(b) ELSE clamp(a)
  IN SubSeq(s, lo + 1, hi)

UpperCase == <<"A", "B", "C", "D", "E", "F", "G", "H", "I", "J", "K", "L", "M",
               "N", "O", "P", "Q", "R", "S", "T", "U", "V", "W", "X", "Y", "Z">>
LowerCase == <<"a", "b", "c", "d", "e", "f", "g", "h", "i", "j", "k", "l", "m",
               "n", "o", "p", "q", "r", "s", "t", "u", "v", "w", "x", "y", "z">>

\* String.prototype.toLowerCase on ASCII text
ToLowerCase(s) ==
  [i \in 1..Len(s) |->
     IF \E n \in 1..26 : UpperCase[n] = s[i]
     THEN LowerCase[CHOOSE n \in 1..26 : UpperCase[n] = s[i]]
     ELSE s[i]]

longRunningCommands ==
  << <<"n", "p", "m", " ", "i", "n", "s", "t", "a", "l", "l">>,
     <<"n", "p", "m", " ", "t", "e", "s", "t">>,
     <<"n", "p", "m", " ", "r", "u", "n">>,
     <<"g", "i", "t", " ", "c", "l", "o", "n", "e">>,
     <<"w", "g", "e", "t">>,
     <<"c", "u", "r", "l">>,
     <<"p", "i", "n", "g">>,
     <<"s", "l", "e", "e", "p">> >>

\* a call a handler makes: fn is the function, arg its path or command,
\* content what a write writes, streaming whether onOutput is passed
ApiCall(fn, arg, content, streaming) ==
  [fn |-> fn, arg |-> arg, content |-> content, streaming |-> streaming]

\* what a handler does with its params: the error it throws before calling
\* anything ("none" if it throws none), the calls it makes in order, and
\* whether it catches their errors and returns them as text
Plan(throws, calls, catches) == [throws |-> throws, calls |-> calls, catches |-> catches]

handleReadFile(params) ==
  Plan("none", <<ApiCall("readFile", Trim(params), <<>>, FALSE)>>, FALSE)

\* a handler that takes the content from one character too early
handleWriteFile_OffByOne(params) ==
  LET contentStartIndex == StringIndexOf(params, S_CONTENT_START)
      contentEndIndex == StringLastIndexOf(params, S_CONTENT_END) IN
  IF contentStartIndex = -1 \/ contentEndIndex = -1
  THEN Plan("MalformedParams", <<>>, FALSE)
  ELSE Plan("none",
            <<ApiCall("writeFile", Trim(Substring(params, 0, contentStartIndex)),
                      Substring(params, contentStartIndex + 14, contentEndIndex), FALSE)>>,
            FALSE)

handleWriteFile(params) ==
  LET contentStartIndex == StringIndexOf(params, S_CONTENT_START)
      contentEndIndex == StringLastIndexOf(params, S_CONTENT_END) IN
  IF contentStartIndex = -1 \/ contentEndIndex = -1
  THEN Plan("MalformedParams", <<>>, FALSE)
  ELSE Plan("none",
            <<ApiCall("writeFile", Trim(Substring(params, 0, contentStartIndex)),
                      Substring(params, contentStartIndex + 15, contentEndIndex), FALSE)>>,
            FALSE)

handleDeleteFile(params) ==
  Plan("none", <<ApiCall("deleteFile", Trim(params), <<>>, FALSE)>>, FALSE)

handleListFiles(params) ==
  Plan("none",
       <<ApiCall("listFiles", IF Truthy(Trim(params)) THEN Trim(params) ELSE S_dot,
                 <<>>, FALSE)>>,
       FALSE)

\* a handler that compares the command as typed
handleExecCommand_CaseSensitive(params) ==
  LET workdirIndex == StringIndexOf(params, S_WORKDIR)
      command == IF workdirIndex # -1 THEN Trim(Substring(params, 0, workdirIndex))
                 ELSE Trim(params)
      isLongRunning == \E i \in 1..Len(longRunningCommands) :
                         OccursAt(command, longRunningCommands[i], 1)
  IN Plan("none", <<ApiCall("executeCommand", command, <<>>, isLongRunning)>>, FALSE)

handleExecCommand(params) ==
  LET workdirIndex == StringIndexOf(params, S_WORKDIR)
      command == IF workdirIndex # -1 THEN Trim(Substring(params, 0, workdirIndex))
                 ELSE Trim(params)
      isLongRunning == \E i \in 1..Len(longRunningCommands) :
                         OccursAt(ToLowerCase(command), longRunningCommands[i], 1)
  IN Plan("none", <<ApiCall("executeCommand", command, <<>>, isLongRunning)>>, FALSE)

\* applyFileDiff(filePath, diffContent) for a diffContent with no line break
\* in it, as every params the dispatcher extracts is: both block patterns
\* need line breaks, so no block is parsed, and the file is read and then
\* written back with the content read
applyFileDiff(filePath) ==
  <<ApiCall("readFile", filePath, <<>>, FALSE), ApiCall("writeBack", filePath, <<>>, FALSE)>>

\* previewFileDiff(filePath, diffContent): the read, inside a try block
previewFileDiff(filePath) == <<ApiCall("readFile", filePath, <<>>, FALSE)>>

handleDiffFile(params) ==
  LET colonIndex == StringIndexOf(params, S_colon) IN
  IF colonIndex = -1 THEN Plan("MalformedParams", <<>>, FALSE)
  ELSE Plan("none", applyFileDiff(Trim(Substring(params, 0, colonIndex))), FALSE)

handlePreviewDiff(params) ==
  LET colonIndex == StringIndexOf(params, S_colon) IN
  IF colonIndex = -1 THEN Plan("MalformedParams", <<>>, FALSE)
  ELSE Plan("none", previewFileDiff(Trim(Substring(params, 0, colonIndex))), TRUE)

handleApproveCommand(params) ==
  Plan("none", <<ApiCall("addApprovedCommand", Trim(params), <<>>, FALSE)>>, FALSE)

handleRemoveCommand(params) ==
  Plan("none", <<ApiCall("removeApprovedCommand", Trim(params), <<>>, FALSE)>>, FALSE)

handleShowCommands == Plan("none", <<ApiCall("showCommands", <<>>, <<>>, FALSE)>>, FALSE)

handleShowPermissions == Plan("none", <<ApiCall("showPermissions", <<>>, <<>>, FALSE)>>, FALSE)

handleResetPermissions == Plan("none", <<ApiCall("resetPermissions", <<>>, <<>>, FALSE)>>, FALSE)

\* executeAction(actionType, params): the switch over the action type
executeAction(actionType, params) ==
  CASE actionType = "READ_FILE" -> handleReadFile(params)
    [] actionType = "WRITE_FILE" -> handleWriteFile(params)
    [] actionType = "DELETE_FILE" -> handleDeleteFile(params)
    [] actionType = "LIST_FILES" -> handleListFiles(params)
    [] actionType = "EXEC_COMMAND" -> handleExecCommand(params)
    [] actionType = "DIFF_FILE" -> handleDiffFile(params)
    [] actionType = "PREVIEW_DIFF" -> handlePreviewDiff(params)
    [] actionType = "APPROVE_COMMAND" -> handleApproveCommand(params)
    [] actionType = "REMOVE_COMMAND" -> handleRemoveCommand(params)
    [] actionType = "SHOW_COMMANDS" -> handleShowCommands
    [] actionType = "SHOW_PERMISSIONS" -> handleShowPermissions
    [] actionType = "RESET_PERMISSIONS" -> handleResetPermissions
    [] OTHER -> Plan("UnknownActionType", <<>>, FALSE)

----------------------------------------------------------------------------
(* lib/enhanced-agent.js: processActions, one reply (specification         *)
(* SpecAgent)                                                              *)

\* bound on the number of action tokens in the reply
MaxActions == 2

ActionToken(type, params) == [type |-> type, params |-> params]

\* the tokens a reply is made of: ACTION:([A-Z_]+):([^\n]+), so a type of
\* capitals and underscores and a non-empty params with no line break
AgentTokens ==
  { ActionToken("READ_FILE", S_a_txt),
    ActionToken("WRITE_FILE", S_a_txt \o S_colon \o S_x),
    ActionToken("DELETE_FILE", <<" ">> \o S_a_txt),
    ActionToken("LIST_FILES", S_dot),
    ActionToken("EXEC_COMMAND", S_rm_rf),
    ActionToken("DIFF_FILE", S_a_txt \o S_colon \o S_y),
    ActionToken("PREVIEW_DIFF", S_a_txt),
    ActionToken("APPROVE_COMMAND", S_rm),
    ActionToken("REMOVE_COMMAND", S_git_status),
    ActionToken("SHOW_COMMANDS", S_x),
    ActionToken("SHOW_PERMISSIONS", S_x),
    ActionToken("RESET_PERMISSIONS", S_x),
    ActionToken("RESET_COMMANDS", S_x) }

Replies == UNION {[1..n -> AgentTokens] : n \in 1..MaxActions}

\* the permissions a reply can find: none, or auto-approve chosen for
\* commands at an earlier prompt
AgentPermissions ==
  {NoPermissions, setAutoApprove(NoPermissions, "command_exec")}

Snapshot(perms, ac, files) == <<perms, ac, files>>

NoOut == [fs |-> <<>>, error |-> "none", value |-> <<>>]

\* an action the loop has not reached
FreshRun ==
  [st |-> "pending", call |-> 0, attempts |-> 0, prompted |-> FALSE, error |-> "none",
   value |-> <<>>, out |-> NoOut, seen |-> <<>>, left |-> <<>>]

Settled == {"ok", "failed"}

\* a loop that starts every action at once
LoopGuard_AllAtOnce(r, k) == TRUE

\* a loop with no catch block
LoopAfterError_Rethrow(error) == "threw"

\* for (const action of actions) { ... await this.executeAction(...) ... }:
\* an iteration starts when every earlier one has finished
LoopGuard(r, k) == \A j \in 1..(k - 1) : r[j].st \in Settled

\* catch (error) { actionResults.push(...); ... }: the loop goes on
LoopAfterError(error) == "looping"

InitAgent ==
  /\ permissions \in AgentPermissions
  /\ approvedCommands = AbsentList
  /\ fs = (S_a_txt :> S_x)
  /\ last = ConfigCall("none", <<>>, FALSE)
  /\ probe = NoProbe
  /\ actions \in Replies
  /\ run = [k \in 1..Len(actions) |-> FreshRun]
  /\ before = getApprovedCommands(approvedCommands)
  /\ proc = "looping"
  /\ response = <<>>
  /\ processedResponse = <<>>

\* the loop reaches action k and calls executeAction
Begin(k) ==
  /\ proc = "looping"
  /\ run[k].st = "pending"
  /\ LoopGuard(run, k)
  /\ run' = [run EXCEPT ![k] = [@ EXCEPT !.st = "checking", !.call = 1,
                                         !.attempts = @ + 1,
                                         !.seen = Snapshot(permissions, approvedCommands, fs)]]
  /\ UNCHANGED <<permissions, approvedCommands, fs, last, probe, actions, before, proc,
                 textVars>>

\* executeAction of action k returns (st = "ok") or throws (st = "failed")
Settle(k, st, error, prompted) ==
  /\ run' = [run EXCEPT ![k] = [@ EXCEPT !.st = st, !.error = error,
                                         !.prompted = @ \/ prompted,
                                         !.left = Snapshot(permissions', approvedCommands', fs')]]
  /\ proc' = IF st = "failed" THEN LoopAfterError(error) ELSE proc

GatedFns == {"readFile", "writeFile", "writeBack", "deleteFile", "executeCommand"}

OpOf(c) == IF c.fn = "writeBack" THEN "writeFile" ELSE c.fn

ActionTypeOf(c) ==
  CASE c.fn = "readFile" -> "file_read"
    [] c.fn \in {"writeFile", "writeBack"} -> "file_write"
    [] c.fn = "deleteFile" -> "file_delete"
    [] c.fn = "executeCommand" -> "command_exec"

\* what the gated call c can do in the current state, value being what the
\* handler read before
Outcomes(c, value) ==
  LET answers == CheckAnswers(permissions, approvedCommands, ActionTypeOf(c),
                              IF c.fn = "executeCommand" THEN c.arg ELSE <<>>) IN
  CASE c.fn = "readFile" ->
         {readFile(permissions, approvedCommands, fs, c.arg, a) : a \in answers}
    [] c.fn = "writeFile" ->
         {writeFile(permissions, approvedCommands, fs, c.arg, c.content, d, a) :
            a \in answers, d \in BOOLEAN}
    [] c.fn = "writeBack" ->
         {writeFile(permissions, approvedCommands, fs, c.arg, value, d, a) :
            a \in answers, d \in BOOLEAN}
    [] c.fn = "deleteFile" ->
         {deleteFile(permissions, approvedCommands, fs, c.arg, a) : a \in answers}
    [] c.fn = "executeCommand" ->
         {executeCommand(permissions, approvedCommands, fs, c.arg, c.streaming, e, a) :
            a \in answers, e \in ChildEnds}

\* action k is suspended on the system call it was allowed to make
Suspend(k, o) ==
  /\ run' = [run EXCEPT ![k] = [@ EXCEPT !.st = "acting",
                                         !.prompted = @ \/ o.prompted,
                                         !.out = [fs |-> o.fs, error |-> o.error,
                                                  value |-> o.value]]]
  /\ proc' = proc

\* a gated call: the permission check, the prompt and the user's answer if
\* there is one, and either the refusal or the start of the system call
DecideGated(k, c, catches) ==
  \E o \in Outcomes(c, run[k].value) :
    /\ permissions' = o.permissions
    /\ approvedCommands' = o.approvedCommands
    /\ fs' = fs
    /\ last' = Call(OpOf(c), c.arg, ActionTypeOf(c), o)
    /\ IF o.sys = "none"
       THEN Settle(k, IF catches THEN "ok" ELSE "failed", o.error, o.prompted)
       ELSE Suspend(k, o)

\* listFiles(dirPath): fs.readdir with no permission check; ok is whether
\* the directory can be read
DecideListFiles(k, c) ==
  \E ok \in BOOLEAN :
    /\ last' = [ConfigCall("listFiles", c.arg, FALSE) EXCEPT !.sys = "fs.readdir"]
    /\ UNCHANGED <<permissions, approvedCommands, fs>>
    /\ Suspend(k, [prompted |-> FALSE, fs |-> fs, value |-> <<>>,
                   error |-> IF ok THEN "none" ELSE "IOFailure"])

\* the handlers that only read or edit the configuration
DecideConfig(k, c) ==
  LET r == CASE c.fn = "addApprovedCommand" -> addApprovedCommand(approvedCommands, c.arg)
             [] c.fn = "removeApprovedCommand" -> removeApprovedCommand(approvedCommands, c.arg)
             [] c.fn = "showCommands" -> [threw |-> ~IsArray(approvedCommands),
                                          ac |-> approvedCommands]
             [] OTHER -> [threw |-> FALSE, ac |-> approvedCommands]
  IN /\ approvedCommands' = r.ac
     /\ permissions' = IF c.fn = "resetPermissions" THEN resetPermissions ELSE permissions
     /\ fs' = fs
     /\ last' = ConfigCall(c.fn, c.arg, r.threw)
     /\ Settle(k, IF r.threw THEN "failed" ELSE "ok",
               IF r.threw THEN "TypeError" ELSE "none", FALSE)

\* the handler of action k runs up to its next suspension
Decide(k) ==
  /\ proc = "looping"
  /\ run[k].st = "checking"
  /\ LET plan == executeAction(actions[k].type, actions[k].params) IN
     IF plan.throws # "none"
     THEN /\ UNCHANGED <<permissions, approvedCommands, fs, last>>
          /\ Settle(k, "failed", plan.throws, FALSE)
     ELSE LET c == plan.calls[run[k].call] IN
          IF c.fn \in GatedFns THEN DecideGated(k, c, plan.catches)
          ELSE IF c.fn = "listFiles" THEN DecideListFiles(k, c)
          ELSE DecideConfig(k, c)
  /\ UNCHANGED <<probe, actions, before, textVars>>

\* the system call of action k completes: its effect on the file system is
\* there, and the handler goes on to its next call, returns or throws
Complete(k) ==
  /\ proc = "looping"
  /\ run[k].st = "acting"
  /\ fs' = run[k].out.fs
  /\ UNCHANGED <<permissions, approvedCommands>>
  /\ LET plan == executeAction(actions[k].type, actions[k].params)
         out == run[k].out IN
     IF out.error # "none"
     THEN Settle(k, IF plan.catches THEN "ok" ELSE "failed", out.error, FALSE)
     ELSE IF run[k].call < Len(plan.calls)
     THEN /\ run' = [run EXCEPT ![k] = [@ EXCEPT !.st = "checking", !.call = @ + 1,
                                                 !.value = out.value, !.out = NoOut]]
          /\ proc' = proc
     ELSE Settle(k, "ok", "none", FALSE)
  /\ UNCHANGED <<last, probe, actions, before, textVars>>

\* return processedResponse
Return ==
  /\ proc = "looping"
  /\ \A k \in 1..Len(actions) : run[k].st \in Settled
  /\ proc' = "returned"
  /\ UNCHANGED <<permissions, approvedCommands, fs, last, probe, actions, run, before,
                 textVars>>

NextAgent ==
  \/ \E k \in 1..MaxActions : k <= Len(actions) /\ Begin(k)
  \/ \E k \in 1..MaxActions : k <= Len(actions) /\ Decide(k)
  \/ \E k \in 1..MaxActions : k <= Len(actions) /\ Complete(k)
  \/ Return

SpecAgent == InitAgent /\ [][NextAgent]_vars

----------------------------------------------------------------------------
(* Properties of the dispatcher (SpecAgent)                                *)

\* C3: while command_exec has no forever grant, a reply never gets a command
\* to the shell without a prompt unless the command matches an entry that
\* was in the approved list before the reply was processed.
C3_ReplyCannotApproveItsOwnCommand ==
  [][\A k \in 1..Len(actions) :
       /\ actions[k].type = "EXEC_COMMAND"
       /\ run[k].st = "checking" /\ run'[k].st = "acting"
       /\ ~last'.prompted
       /\ ~isActionAllowedForever(permissions, "command_exec")
       => isCommandApprovedIn(before, last'.arg)]_vars

\* C9: processActions never throws; every action is attempted at most once
\* and only after all earlier ones were; after a failed action the next one
\* can start; and when processActions returns every action was attempted
\* once and has returned or failed.
C9_EveryActionAttemptedOnce ==
  /\ proc # "threw"
  /\ \A k \in 1..Len(run) :
       /\ run[k].attempts <= 1
       /\ (run[k].attempts = 1 => \A j \in 1..(k - 1) : run[j].attempts = 1)
       /\ (run[k].st = "failed" /\ k < Len(run) /\ run[k + 1].st = "pending"
             => ENABLED Begin(k + 1))
       /\ (proc = "returned" => run[k].attempts = 1 /\ run[k].st \in Settled)

\* an unknown action type failed first, the action after it succeeded, and
\* processActions returned
C9_Witness ==
  /\ proc = "returned" /\ Len(run) = 2
  /\ run[1].st = "failed" /\ run[1].error = "UnknownActionType"
  /\ run[2].st = "ok" /\ run[2].attempts = 1

\* C10: an action has started only if every earlier action of the reply has
\* returned or failed, and the permissions, approved list and file system it
\* found are those its predecessor left.
C10_OneActionAtATime ==
  \A k \in 1..Len(run) :
    run[k].st # "pending" =>
      /\ \A j \in 1..(k - 1) : run[j].st \in Settled
      /\ (k > 1 => run[k].seen = run[k - 1].left)

\* a delete that waited on a prompt and on the file system, then a read of
\* the same path that found the file gone
C10_Witness ==
  /\ Len(run) = 2
  /\ actions[1].type = "DELETE_FILE" /\ run[1].st = "ok" /\ run[1].prompted
  /\ run[1].left # run[1].seen
  /\ actions[2].type = "READ_FILE" /\ run[2].st = "failed" /\ run[2].error = "IOFailure"

----------------------------------------------------------------------------
(* lib/enhanced-agent.js: processActions on the text of a reply            *)
(* (specification SpecReply)                                               *)

\* bound on the number of pieces a reply text is made of
MaxPieces == 3

S_ACTION == <<"A", "C", "T", "I", "O", "N", ":">>
S_READ_a == S_ACTION \o <<"R", "E", "A", "D", "_", "F", "I", "L", "E", ":", "a">>
S_READ_a_txt == S_READ_a \o <<".", "t", "x", "t">>
S_LIST_dot == S_ACTION \o <<"L", "I", "S", "T", "_", "F", "I", "L", "E", "S", ":", ".">>
S_WRITE_body == S_a_txt \o S_CONTENT_START \o S_x \o S_CONTENT_END
S_WRITE_a_txt == S_ACTION \o <<"W", "R", "I", "T", "E", "_", "F", "I", "L", "E", ":">> \o S_WRITE_body

\* [A-Z_]
TypeChars == {UpperCase[n] : n \in 1..26} \cup {"_"}

\* the length of the longest run of characters of `class` in s from position i
RunLength(s, i, class) ==
  LET stops == {j \in i..Len(s) : s[j] \notin class} IN
  IF i > Len(s) THEN 0
  ELSE IF stops = {} THEN Len(s) - i + 1
  ELSE (CHOOSE j \in stops : \A h \in stops : j <= h) - i

\* the characters of s other than the line break: [^\n]
NotLineBreak(s) == {s[i] : i \in 1..Len(s)} \ {"\n"}

\* /ACTION:([A-Z_]+):([^\n]+)/ tried at the 1-based position i: both
\* quantifiers are greedy, and neither can give a character back to what
\* follows it, so the type is the whole run of capitals and the params the
\* rest of the line
RegexMatchAt(s, i) ==
  LET t == RunLength(s, i + 7, TypeChars)
      p == RunLength(s, i + 8 + t, NotLineBreak(s))
  IN IF OccursAt(s, S_ACTION, i) /\ t >= 1 /\ i + 7 + t <= Len(s) /\ s[i + 7 + t] = ":"
        /\ p >= 1
     THEN [found |-> TRUE, index |-> i - 1,
           type |-> SubSeq(s, i + 7, i + 6 + t),
           params |-> SubSeq(s, i + 8 + t, i + 7 + t + p),
           fullMatch |-> SubSeq(s, i, i + 7 + t + p)]
     ELSE [found |-> FALSE]

\* while ((match = actionRegex.exec(response)) !== null) actions.push(...):
\* the matches from position i on, each search starting where the last
\* match ended; index is match.index
RECURSIVE ExtractFrom(_, _)
ExtractFrom(s, i) ==
  LET hits == {j \in i..Len(s) : RegexMatchAt(s, j).found} IN
  IF hits = {} THEN <<>>
  ELSE LET j == CHOOSE h \in hits : \A g \in hits : h <= g
           m == RegexMatchAt(s, j)
       IN <<[type |-> m.type, params |-> m.params, fullMatch |-> m.fullMatch,
             index |-> m.index]>> \o ExtractFrom(s, j + Len(m.fullMatch))

ExtractActions(s) == ExtractFrom(s, 1)

\* the character U+0060, which a string of this language cannot hold
Backtick == "U+0060"

\* the replacement text of String.prototype.replace with a string pattern:
\* $$ is a dollar sign, $& the matched text, $ and U+0060 the text before
\* the match and $' the text after it
RECURSIVE ExpandReplacement(_, _, _, _)
ExpandReplacement(r, matched, pre, post) ==
  LET hits == {i \in 1..(Len(r) - 1) : r[i] = "$" /\ r[i + 1] \in {"$", "&", Backtick, "'"}} IN
  IF hits = {} THEN r
  ELSE LET i == CHOOSE h \in hits : \A g \in hits : h <= g IN
       SubSeq(r, 1, i - 1)
         \o (CASE r[i + 1] = "$" -> <<"$">>
               [] r[i + 1] = "&" -> matched
               [] r[i + 1] = Backtick -> pre
               [] r[i + 1] = "'" -> post)
         \o ExpandReplacement(SubSeq(r, i + 2, Len(r)), matched, pre, post)

\* s.replace(pattern, replacement) for a string pattern: the first
\* occurrence only, s itself if there is none
StringReplace(s, pattern, replacement) ==
  LET i == StringIndexOf(s, pattern) IN
  IF i = -1 THEN s
  ELSE LET pre == SubSeq(s, 1, i)
           post == SubSeq(s, i + Len(pattern) + 1, Len(s))
       IN pre \o ExpandReplacement(replacement, pattern, pre, post) \o post

\* chalk.green('... Action completed successfully') and
\* chalk.red('... Action failed: '), each as one symbol
S_completed == <<"<completed>">>
S_failed == <<"<failed>">>

\* the text spliced for an action that returned `result`
SuccessBlock(result) == S_completed \o <<"\n", "\n">> \o result

\* the text spliced for an action that threw an error with `message`
FailureBlock(fullMatch, message) == fullMatch \o <<"\n">> \o S_failed \o message

\* what executeAction can give back: a result text (plain, holding a
\* replacement pattern, or holding the text of an action token) or an error
ReplyOutcomes ==
  { [ok |-> TRUE, text |-> <<"r">>],
    [ok |-> TRUE, text |-> <<"$", "&">>],
    [ok |-> TRUE, text |-> S_LIST_dot],
    [ok |-> FALSE, text |-> <<"m">>] }

ReplyPieces == {S_READ_a_txt, S_READ_a, S_LIST_dot, S_WRITE_a_txt, <<"\n">>, <<" ">>, <<"p">>}

RECURSIVE Concat(_)
Concat(pieces) == IF pieces = <<>> THEN <<>> ELSE Head(pieces) \o Concat(Tail(pieces))

ReplyTexts == {Concat(ps) : ps \in UNION {[1..n -> ReplyPieces] : n \in 0..MaxPieces}}

InitReply ==
  /\ permissions = NoPermissions
  /\ approvedCommands = AbsentList
  /\ fs = <<>>
  /\ last = ConfigCall("none", <<>>, FALSE)
  /\ probe = NoProbe
  /\ actions = <<>>
  /\ run = <<>>
  /\ before = <<>>
  /\ proc = "called"
  /\ response \in ReplyTexts
  /\ processedResponse = <<>>

\* let processedResponse = response; ...; the loop that finds the actions
FindActions ==
  /\ proc = "called"
  /\ actions' = ExtractActions(response)
  /\ run' = [k \in 1..Len(actions') |-> [st |-> "pending", text |-> <<>>]]
  /\ processedResponse' = response
  /\ proc' = "looping"
  /\ UNCHANGED <<permissions, approvedCommands, fs, last, probe, before, response>>

\* one iteration of the loop: executeAction returns or throws, and the
\* outcome is spliced into processedResponse
Splice(k) ==
  /\ proc = "looping"
  /\ run[k].st = "pending"
  /\ LoopGuard(run, k)
  /\ \E o \in ReplyOutcomes :
       /\ run' = [run EXCEPT ![k] = [st |-> IF o.ok THEN "ok" ELSE "failed", text |-> o.text]]
       /\ processedResponse' =
            StringReplace(processedResponse, actions[k].fullMatch,
                          IF o.ok THEN SuccessBlock(o.text)
                          ELSE FailureBlock(actions[k].fullMatch, o.text))
       /\ proc' = IF o.ok THEN proc ELSE LoopAfterError(o.text)
  /\ UNCHANGED <<permissions, approvedCommands, fs, last, probe, actions, before, response>>

ReturnProcessed ==
  /\ proc = "looping"
  /\ \A k \in 1..Len(actions) : run[k].st \in Settled
  /\ proc' = "returned"
  /\ UNCHANGED <<permissions, approvedCommands, fs, last, probe, actions, run, before,
                 textVars>>

NextReply ==
  \/ FindActions
  \/ \E k \in 1..MaxPieces : k <= Len(actions) /\ Splice(k)
  \/ ReturnProcessed

SpecReply == InitReply /\ [][NextReply]_vars

----------------------------------------------------------------------------
(* Properties of the reply text (SpecReply)                                *)

\* the text spliced for action k
BlockOf(acts, outs, k) ==
  IF outs[k].st = "ok" THEN SuccessBlock(outs[k].text)
  ELSE FailureBlock(acts[k].fullMatch, outs[k].text)

\* the reply with the token of each of the first k actions replaced, where
\* that token stands, by the action's block
RECURSIVE SplicedInPlace(_, _, _, _)
SplicedInPlace(text, acts, outs, k) ==
  IF k = 0 THEN text
  ELSE LET from == acts[k].index + 1
           to == acts[k].index + Len(acts[k].fullMatch)
       IN SplicedInPlace(SubSeq(text, 1, from - 1) \o BlockOf(acts, outs, k)
                           \o SubSeq(text, to + 1, Len(text)),
                         acts, outs, k - 1)

\* C11: the text processActions returns has every action's outcome at the
\* place of that action's own token: the success block instead of the token,
\* or the token followed by the failure annotation.
C11_OutcomeAtOwnToken ==
  proc = "returned" =>
    processedResponse = SplicedInPlace(response, actions, run, Len(actions))

\* where the payload of action k starts and where the claim's parser ends it
PayloadStart(acts, k) == acts[k].index + 7 + Len(acts[k].type) + 2

PayloadEnd(text, acts, k) ==
  IF k < Len(acts) THEN acts[k + 1].index ELSE Len(text)

\* C12: the payload of a token runs from after ACTION:<TYPE>: to the start
\* of the next token or the end of the text, line breaks included.
C12_PayloadRunsToNextToken ==
  proc \in {"looping", "returned"} =>
    \A k \in 1..Len(actions) :
      actions[k].params
        = SubSeq(response, PayloadStart(actions, k), PayloadEnd(response, actions, k))

\* C13: a reply holding ACTION:READ_FILE:a.txt and then ACTION:LIST_FILES:.,
\* a line break or a blank between them, gives exactly two actions, in that
\* order, with the trimmed params a.txt and '.'.
C13_TwoTokensTwoActions ==
  /\ proc \in {"looping", "returned"}
  /\ \E mid \in {<<"\n">>, <<" ">>} : response = S_READ_a_txt \o mid \o S_LIST_dot
  => /\ Len(actions) = 2
     /\ actions[1].type = <<"R", "E", "A", "D", "_", "F", "I", "L", "E">>
     /\ Trim(actions[1].params) = S_a_txt
     /\ actions[2].type = <<"L", "I", "S", "T", "_", "F", "I", "L", "E", "S">>
     /\ Trim(actions[2].params) = S_dot

----------------------------------------------------------------------------
(* SpecWrite: handleWriteFile called with one params text                  *)

MaxContent == 2

WritePaths == {<<"a">>, <<" ", "a", " ">>, S_a_txt}

ContentPieces == {S_x, <<"\n">>, S_CONTENT_END, S_CONTENT_START}

WriteContents ==
  {Concat(ps) : ps \in UNION {[1..n -> ContentPieces] : n \in 0..MaxContent}}

\* the documented form, the same with a marker left out or cut short, and
\* the two markers sharing one line break
WriteParams ==
  UNION {{path \o S_CONTENT_START \o content \o S_CONTENT_END,
          path \o S_CONTENT_START \o content,
          path \o S_colon \o content \o S_CONTENT_END,
          path \o SubSeq(S_CONTENT_START, 1, 14) \o content \o S_CONTENT_END,
          path \o S_CONTENT_START \o SubSeq(S_CONTENT_END, 2, 12)}
         : path \in WritePaths, content \in WriteContents}

WritePermissions ==
  {NoPermissions, setActionAllowedForever(NoPermissions, "file_write")}

InitWrite ==
  /\ permissions \in WritePermissions
  /\ approvedCommands = AbsentList
  /\ fs \in {<<>>, (<<"a">> :> S_y)}
  /\ last = ConfigCall("none", <<>>, FALSE)
  /\ probe = NoProbe
  /\ actions = <<>>
  /\ run = <<>>
  /\ before = <<>>
  /\ proc = "called"
  /\ response \in WriteParams
  /\ processedResponse = <<>>

\* what the handler was given and what it passed on
WriteProbe(plan) ==
  [fn |-> "handleWriteFile", params |-> response, throws |-> plan.throws,
   calls |-> plan.calls]

\* the handler throws the invalid-format error
RejectParams ==
  /\ proc = "called"
  /\ handleWriteFile(response).throws # "none"
  /\ probe' = WriteProbe(handleWriteFile(response))
  /\ last' = ConfigCall("handleWriteFile", response, FALSE)
  /\ proc' = "failed"
  /\ UNCHANGED <<permissions, approvedCommands, fs, actions, run, before, textVars>>

\* the handler awaits writeFile
CallWriteFile ==
  /\ proc = "called"
  /\ handleWriteFile(response).throws = "none"
  /\ LET c == handleWriteFile(response).calls[1] IN
     \E answer \in CheckAnswers(permissions, approvedCommands, "file_write", <<>>),
        dirOk \in BOOLEAN :
       LET o == writeFile(permissions, approvedCommands, fs, c.arg, c.content,
                          dirOk, answer) IN
       /\ permissions' = o.permissions
       /\ approvedCommands' = o.approvedCommands
       /\ fs' = o.fs
       /\ last' = Call("writeFile", c.arg, "file_write", o)
       /\ probe' = WriteProbe(handleWriteFile(response))
       /\ proc' = IF o.error = "none" THEN "returned" ELSE "failed"
  /\ UNCHANGED <<actions, run, before, textVars>>

NextWrite == RejectParams \/ CallWriteFile

SpecWrite == InitWrite /\ [][NextWrite]_vars

\* the text holds the marker somewhere
HasMarker(text, marker) == \E i \in 1..Len(text) : OccursAt(text, marker, i)

\* the handler has run on params of the documented form, path and content
WellFormed(path, content) ==
  /\ probe.fn = "handleWriteFile"
  /\ probe.params = path \o S_CONTENT_START \o content \o S_CONTENT_END

\* C14: on params <path>:CONTENT_START\n<content>\nCONTENT_END the handler
\* calls writeFile with the trimmed path and exactly the content, and the
\* file written holds that content; with a marker missing it throws the
\* invalid-format error, nothing is asked and nothing is written.
C14_WriteFileParams ==
  [][/\ \A path \in WritePaths, content \in WriteContents :
          WellFormed(path, content)' =>
            /\ probe'.throws = "none"
            /\ Len(probe'.calls) = 1
            /\ probe'.calls[1].fn = "writeFile"
            /\ probe'.calls[1].arg = Trim(path)
            /\ probe'.calls[1].content = content
            /\ last'.op = "writeFile" /\ last'.arg = Trim(path)
            /\ last'.sys = "fs.writeFile" /\ last'.error = "none"
                 => fs'[Trim(path)] = content
     /\ /\ probe'.fn = "handleWriteFile"
        /\ \/ ~HasMarker(probe'.params, S_CONTENT_START)
           \/ ~HasMarker(probe'.params, S_CONTENT_END)
        => /\ probe'.throws = "MalformedParams"
           /\ probe'.calls = <<>>
           /\ ~last'.prompted
           /\ last'.sys = "none"
           /\ fs' = fs /\ permissions' = permissions
    ]_vars

\* a prompted, allowed write of a content that itself holds the end marker
C14_Witness ==
  /\ WellFormed(<<" ", "a", " ">>, S_x \o S_CONTENT_END)
  /\ last.prompted /\ last.sys = "fs.writeFile" /\ last.error = "none"
  /\ fs = (<<"a">> :> S_x \o S_CONTENT_END)

----------------------------------------------------------------------------
(* lib/file-diff.js: applying one block to the lines of a file             *)

\* String.prototype.split('\n'): the pieces between the line breaks, one
\* more than there are line breaks
Split(s) ==
  LET breaks == {i \in 1..Len(s) : s[i] = "\n"}
      n == Cardinality(breaks)
      nth(k) == CHOOSE i \in breaks : Cardinality({j \in breaks : j < i}) = k - 1
      from(k) == IF k = 1 THEN 1 ELSE nth(k - 1) + 1
      to(k) == IF k = n + 1 THEN Len(s) ELSE nth(k) - 1
  IN [k \in 1..(n + 1) |-> SubSeq(s, from(k), to(k))]

\* Array.prototype.join('\n')
RECURSIVE Join(_)
Join(lines) ==
  IF lines = <<>> THEN <<>>
  ELSE IF Len(lines) = 1 THEN lines[1]
  ELSE lines[1] \o <<"\n">> \o Join(Tail(lines))

\* the inner loop: the lines from the 0-based index i on match the search
\* lines, each side trimmed
SpanMatches(lines, searchLines, i) ==
  \A j \in 0..(Len(searchLines) - 1) :
    Trim(lines[i + j + 1]) = Trim(searchLines[j + 1])

\* the outer loop from index i on: the first index that matches, -1 if the
\* loop runs out
RECURSIVE FindSpan(_, _, _)
FindSpan(lines, searchLines, i) ==
  IF i > Len(lines) - Len(searchLines) THEN -1
  ELSE IF SpanMatches(lines, searchLines, i) THEN i
  ELSE FindSpan(lines, searchLines, i + 1)

Max(a, b) == IF a > b THEN a ELSE b

Applied(lines, changes) ==
  [threw |-> FALSE, lines |-> lines, changes |-> changes, message |-> <<>>]

NotFound(error, search) ==
  [threw |-> TRUE, lines |-> <<>>, changes |-> 0, error |-> error, message |-> search]

ReplaceBlock(search, replace) ==
  [type |-> "replace", search |-> search, payload |-> replace]

InsertBlock(search, insert) ==
  [type |-> "insert", search |-> search, payload |-> insert]

\* a replace that puts the payload in place of the last matching span
applyReplaceBlock_LastSpan(lines, block) ==
  LET searchLines == Split(block.search)
      hits == {i \in 0..(Len(lines) - Len(searchLines)) : SpanMatches(lines, searchLines, i)}
      i == CHOOSE h \in hits : \A g \in hits : g <= h
  IN IF hits = {} THEN NotFound("Search pattern not found in file", block.search)
     ELSE Applied(SubSeq(lines, 1, i) \o Split(block.payload)
                    \o SubSeq(lines, i + Len(searchLines) + 1, Len(lines)), 1)

applyReplaceBlock(lines, block) ==
  LET searchLines == Split(block.search)
      replaceLines == Split(block.payload)
      i == FindSpan(lines, searchLines, 0)
  IN IF i = -1 THEN NotFound("Search pattern not found in file", block.search)
     ELSE Applied(SubSeq(lines, 1, i) \o replaceLines
                    \o SubSeq(lines, i + Len(searchLines) + 1, Len(lines)),
                  Max(Len(searchLines), Len(replaceLines)))

\* an insert that puts the payload in front of the anchor
applyInsertBlock_BeforeAnchor(lines, block) ==
  LET searchLines == Split(block.search)
      i == FindSpan(lines, searchLines, 0)
  IN IF i = -1 THEN NotFound("Search pattern not found for insertion", block.search)
     ELSE Applied(SubSeq(lines, 1, i) \o Split(block.payload)
                    \o SubSeq(lines, i + 1, Len(lines)), 1)

\* an insert that counts the anchor lines when they outnumber the payload
applyInsertBlock_CountsAnchor(lines, block) ==
  LET searchLines == Split(block.search)
      insertLines == Split(block.payload)
      i == FindSpan(lines, searchLines, 0)
  IN IF i = -1 THEN NotFound("Search pattern not found for insertion", block.search)
     ELSE Applied(SubSeq(lines, 1, i + Len(searchLines)) \o insertLines
                    \o SubSeq(lines, i + Len(searchLines) + 1, Len(lines)),
                  Max(Len(searchLines), Len(insertLines)))

applyInsertBlock(lines, block) ==
  LET searchLines == Split(block.search)
      insertLines == Split(block.payload)
      i == FindSpan(lines, searchLines, 0)
  IN IF i = -1 THEN NotFound("Search pattern not found for insertion", block.search)
     ELSE Applied(SubSeq(lines, 1, i + Len(searchLines)) \o insertLines
                    \o SubSeq(lines, i + Len(searchLines) + 1, Len(lines)),
                  Len(insertLines))

\* a dispatch that knows no block type and hands the lines back
applyDiffBlock_NoType(lines, block) == Applied(lines, 0)

applyDiffBlock(lines, block) ==
  IF block.type = "replace" THEN applyReplaceBlock(lines, block)
  ELSE IF block.type = "insert" THEN applyInsertBlock(lines, block)
  ELSE Applied(lines, 0)

----------------------------------------------------------------------------
(* SpecBlock: one block applied to one sequence of lines                   *)

MaxLines == 3
MaxSearch == 2
MaxPayload == 2

FileLineSet == {<<"a">>, <<" ", "a">>, <<>>}
SearchLineSet == {<<"a">>, <<"a", " ">>, <<>>}
PayloadLineSet == {<<"a">>, <<" ", "b">>}

LinesUpTo(set, n) == UNION {[1..m -> set] : m \in 1..n}

InitBlock ==
  /\ permissions = NoPermissions
  /\ approvedCommands = AbsentList
  /\ fs = <<>>
  /\ last = ConfigCall("none", <<>>, FALSE)
  /\ probe = NoProbe
  /\ actions \in {<<[search |-> Join(s), payload |-> Join(p)]>> :
                    s \in LinesUpTo(SearchLineSet, MaxSearch),
                    p \in LinesUpTo(PayloadLineSet, MaxPayload)}
  /\ run = <<>>
  /\ before \in LinesUpTo(FileLineSet, MaxLines)
  /\ proc = "called"
  /\ response = <<>>
  /\ processedResponse = <<>>

BlockProbe(fn, block, r) ==
  [fn |-> fn, lines |-> before, block |-> block, threw |-> r.threw,
   result |-> r.lines, message |-> r.message]

ApplyReplaceBlock ==
  /\ proc = "called"
  /\ LET block == ReplaceBlock(actions[1].search, actions[1].payload) IN
       probe' = BlockProbe("applyReplaceBlock", block, applyDiffBlock(before, block))
  /\ proc' = "returned"
  /\ UNCHANGED <<permissions, approvedCommands, fs, last, actions, run, before, textVars>>

ApplyInsertBlock ==
  /\ proc = "called"
  /\ LET block == InsertBlock(actions[1].search, actions[1].payload) IN
       probe' = BlockProbe("applyInsertBlock", block, applyDiffBlock(before, block))
  /\ proc' = "returned"
  /\ UNCHANGED <<permissions, approvedCommands, fs, last, actions, run, before, textVars>>

NextBlock == ApplyReplaceBlock \/ ApplyInsertBlock

SpecBlock == InitBlock /\ [][NextBlock]_vars

\* the span of lines starting after the first i lines equals the search
\* lines once every line is trimmed
IsSpan(lines, searchLines, i) ==
  /\ i + Len(searchLines) <= Len(lines)
  /\ [j \in 1..Len(searchLines) |-> Trim(lines[i + j])]
       = [j \in 1..Len(searchLines) |-> Trim(searchLines[j])]

\* i is the lowest index at which such a span starts
IsFirstSpan(lines, searchLines, i) ==
  /\ IsSpan(lines, searchLines, i)
  /\ \A h \in 0..(i - 1) : ~IsSpan(lines, searchLines, h)

HasSpan(lines, searchLines) == \E i \in 0..Len(lines) : IsSpan(lines, searchLines, i)

\* C15: a replace block puts its payload lines, verbatim, in place of the
\* first span that matches its search lines and leaves the lines before and
\* after alone; with no such span it fails with pattern-not-found carrying
\* the search text and gives no lines.
C15_ReplaceFirstSpan ==
  probe.fn = "applyReplaceBlock" =>
    LET searchLines == Split(probe.block.search)
        n == Len(searchLines) IN
    IF HasSpan(probe.lines, searchLines)
    THEN /\ ~probe.threw
         /\ \E i \in 0..Len(probe.lines) :
              /\ IsFirstSpan(probe.lines, searchLines, i)
              /\ Len(probe.result) = Len(probe.lines) - n + Len(Split(probe.block.payload))
              /\ SubSeq(probe.result, 1, i) = SubSeq(probe.lines, 1, i)
              /\ SubSeq(probe.result, i + 1, i + Len(Split(probe.block.payload)))
                   = Split(probe.block.payload)
              /\ SubSeq(probe.result, i + Len(Split(probe.block.payload)) + 1, Len(probe.result))
                   = SubSeq(probe.lines, i + n + 1, Len(probe.lines))
    ELSE /\ probe.threw
         /\ probe.message = probe.block.search
         /\ probe.result = <<>>

\* the second of two matching spans is left alone and the untrimmed first
\* one is replaced
C15_Witness ==
  /\ probe.fn = "applyReplaceBlock"
  /\ probe.lines = << <<" ", "a">>, <<"a">>, <<>> >>
  /\ probe.block.search = <<"a", " ">>
  /\ probe.block.payload = <<" ", "b">>
  /\ probe.result = << <<" ", "b">>, <<"a">>, <<>> >>

\* C16: an insert block puts its payload lines right after the last line of
\* the first span that matches its anchor lines; the anchor and every other
\* line stay as they were and in order; with no such span it fails with
\* pattern-not-found.
C16_InsertAfterFirstSpan ==
  probe.fn = "applyInsertBlock" =>
    LET searchLines == Split(probe.block.search)
        insertLines == Split(probe.block.payload)
        n == Len(searchLines) IN
    IF HasSpan(probe.lines, searchLines)
    THEN /\ ~probe.threw
         /\ \E i \in 0..Len(probe.lines) :
              /\ IsFirstSpan(probe.lines, searchLines, i)
              /\ Len(probe.result) = Len(probe.lines) + Len(insertLines)
              /\ SubSeq(probe.result, 1, i + n) = SubSeq(probe.lines, 1, i + n)
              /\ SubSeq(probe.result, i + n + 1, i + n + Len(insertLines)) = insertLines
              /\ SubSeq(probe.result, i + n + Len(insertLines) + 1, Len(probe.result))
                   = SubSeq(probe.lines, i + n + 1, Len(probe.lines))
    ELSE /\ probe.threw
         /\ probe.message = probe.block.search
         /\ probe.result = <<>>

\* two payload lines put after a two-line anchor in the middle of the file
C16_Witness ==
  /\ probe.fn = "applyInsertBlock"
  /\ probe.lines = << <<>>, <<" ", "a">>, <<>> >>
  /\ probe.block.search = <<"a", "\n">>
  /\ probe.block.payload = <<"a", "\n", " ", "b">>
  /\ probe.result = << <<>>, <<" ", "a">>, <<>>, <<"a">>, <<" ", "b">> >>

----------------------------------------------------------------------------
(* lib/file-diff.js: parseDiffBlocks and applyFileDiff                     *)

S_SEARCH_OPEN   == <<"<", "<", "<", "<", "<", "<", "<", " ", "S", "E", "A", "R", "C", "H", "\n">>
S_INSERT_OPEN   == <<"<", "<", "<", "<", "<", "<", "<", " ", "I", "N", "S", "E", "R", "T", "_", "A", "F", "T", "E", "R", "\n">>
S_SEPARATOR     == <<"\n", "=", "=", "=", "=", "=", "=", "=", "\n">>
S_REPLACE_CLOSE == <<"\n", ">", ">", ">", ">", ">", ">", ">", " ", "R", "E", "P", "L", "A", "C", "E">>
S_INSERT_CLOSE  == <<"\n", ">", ">", ">", ">", ">", ">", ">", " ", "I", "N", "S", "E", "R", "T">>

\* the 0-based index of the first occurrence of sub in s at or after the
\* 0-based index from, -1 when there is none
IndexOfFrom(s, sub, from) ==
  LET hits == {i \in (from + 1)..Len(s) : OccursAt(s, sub, i)} IN
  IF hits = {} THEN -1 ELSE (CHOOSE i \in hits : \A j \in hits : i <= j) - 1

\* one exec of open ([\s\S]*?) \n=======\n ([\s\S]*?) close from lastIndex:
\* the leftmost opener that a separator and then a closer follow; both
\* groups are lazy, so the first separator and the first closer after it
\* end them
BlockRegexExec(s, lastIndex, open, close) ==
  LET sepOf(p) == IndexOfFrom(s, S_SEPARATOR, p + Len(open))
      closeOf(p) == IF sepOf(p) = -1 THEN -1
                    ELSE IndexOfFrom(s, close, sepOf(p) + Len(S_SEPARATOR))
      starts == {p \in lastIndex..(Len(s) - 1) :
                   OccursAt(s, open, p + 1) /\ closeOf(p) # -1}
      p == CHOOSE q \in starts : \A r \in starts : q <= r
  IN IF starts = {} THEN [found |-> FALSE]
     ELSE [found |-> TRUE,
           group1 |-> SubSeq(s, p + Len(open) + 1, sepOf(p)),
           group2 |-> SubSeq(s, sepOf(p) + Len(S_SEPARATOR) + 1, closeOf(p)),
           lastIndex |-> closeOf(p) + Len(close)]

\* the while loop over exec: every match from lastIndex on, as blocks
RECURSIVE ExecBlocks(_, _, _, _, _)
ExecBlocks(s, lastIndex, open, close, type) ==
  LET m == BlockRegexExec(s, lastIndex, open, close) IN
  IF ~m.found THEN <<>>
  ELSE <<[type |-> type, search |-> m.group1, payload |-> m.group2]>>
         \o ExecBlocks(s, m.lastIndex, open, close, type)

\* a parser that trims the payload it captures
parseDiffBlocks_TrimPayload(diffContent) ==
  LET bs == ExecBlocks(diffContent, 0, S_SEARCH_OPEN, S_REPLACE_CLOSE, "replace")
              \o ExecBlocks(diffContent, 0, S_INSERT_OPEN, S_INSERT_CLOSE, "insert")
  IN [k \in 1..Len(bs) |-> [bs[k] EXCEPT !.payload = Trim(@)]]

parseDiffBlocks(diffContent) ==
  ExecBlocks(diffContent, 0, S_SEARCH_OPEN, S_REPLACE_CLOSE, "replace")
    \o ExecBlocks(diffContent, 0, S_INSERT_OPEN, S_INSERT_CLOSE, "insert")

\* Array.prototype.reverse
Reverse(seq) == [k \in 1..Len(seq) |-> seq[Len(seq) + 1 - k]]

\* a loop that goes on to the next block when one is not found
RECURSIVE ApplyBlocks_SkipMissing(_, _)
ApplyBlocks_SkipMissing(lines, blocks) ==
  IF blocks = <<>> THEN Applied(lines, 0)
  ELSE LET r == applyDiffBlock(lines, Head(blocks)) IN
       IF r.threw THEN ApplyBlocks_SkipMissing(lines, Tail(blocks))
       ELSE ApplyBlocks_SkipMissing(r.lines, Tail(blocks))

\* a loop that refuses a diff with no block in it
ApplyBlocks_NeedsBlock(lines, blocks) ==
  IF blocks = <<>> THEN NotFound("PatternNotFound", <<>>)
  ELSE ApplyBlocks_SkipMissing(lines, blocks)

\* the for loop of applyFileDiff over the reversed blocks: the lines after
\* the last block with the sum of the changes, or the error of the first
\* block that throws
RECURSIVE ApplyBlocks(_, _)
ApplyBlocks(lines, blocks) ==
  IF blocks = <<>> THEN Applied(lines, 0)
  ELSE LET r == applyDiffBlock(lines, Head(blocks)) IN
       IF r.threw THEN r
       ELSE LET rest == ApplyBlocks(r.lines, Tail(blocks)) IN
            IF rest.threw THEN rest
            ELSE Applied(rest.lines, r.changes + rest.changes)

\* what formatDiffResult reports: the number of blocks, the total of the
\* changes the blocks returned, and the sizes before and after
formatDiffResult(filePath, blocks, totalChanges, oldSize, newSize) ==
  [blocks |-> Len(blocks), totalChanges |-> totalChanges,
   oldSize |-> oldSize, newSize |-> newSize]

\* previewFileDiff has not been called
NoPreview == [threw |-> FALSE, kind |-> "none", error |-> "none", blocks |-> <<>>]

\* no call has returned a summary
NoSummary == [blocks |-> -1, totalChanges |-> -1, oldSize |-> -1, newSize |-> -1]

----------------------------------------------------------------------------
(* SpecDiff: applyFileDiff called on one file, once or again               *)

MaxBlocks == 2
MaxCalls == 2

S_b == <<"b">>

DiffPath == S_a_txt

DiffFiles == {<<"a">>, <<"a", "\n">>, <<"a", "\n", "a">>}

DiffBlocks ==
  {ReplaceBlock(s, p) : s \in {<<"a">>, S_b, <<"a", "\n">>},
                        p \in {S_b, <<"a", "\n", "b">>, <<"b", "\n">>}}
    \cup {InsertBlock(<<"a">>, S_b), InsertBlock(<<"a", "\n", "a">>, S_b)}

\* a block as the diff text spells it
BlockText(block) ==
  IF block.type = "replace"
  THEN S_SEARCH_OPEN \o block.search \o S_SEPARATOR \o block.payload \o S_REPLACE_CLOSE
  ELSE S_INSERT_OPEN \o block.search \o S_SEPARATOR \o block.payload \o S_INSERT_CLOSE

\* a diff text: its blocks one after the other, each on lines of its own
DiffText(blocks) == Join([k \in 1..Len(blocks) |-> BlockText(blocks[k])])

DiffInputs == UNION {[1..n -> DiffBlocks] : n \in 0..MaxBlocks}

\* the user's answers to the prompts of a call
DiffAnswers(actionType) ==
  CheckAnswers(permissions, approvedCommands, actionType, <<>>)
    \cap {"allow", "disallow", "none"}

InitDiff ==
  /\ permissions = NoPermissions
  /\ approvedCommands = AbsentList
  /\ fs \in {<<>>} \cup {(DiffPath :> c) : c \in DiffFiles}
  /\ last = ConfigCall("none", <<>>, FALSE)
  /\ \E blocks \in DiffInputs :
       /\ probe = [fn |-> "applyFileDiff", filePath |-> DiffPath, written |-> blocks,
                   read |-> <<>>, summary |-> NoSummary, preview |-> NoPreview]
       /\ response = DiffText(blocks)
  /\ actions = <<>>
  /\ run = <<>>
  /\ before = <<>>
  /\ proc = "called"
  /\ processedResponse = <<>>

\* a preview whose catch block is missing
PreviewResult_NoCatch(o, diffContent) ==
  [threw |-> o.error # "none", kind |-> "preview", error |-> o.error,
   blocks |-> IF o.error = "none" THEN parseDiffBlocks(diffContent) ELSE <<>>]

\* what previewFileDiff returns after its readFile ended as o: the preview
\* of the parsed blocks, or, from the catch block, the error as a text
PreviewResult(o, diffContent) ==
  IF o.error = "none"
  THEN [threw |-> FALSE, kind |-> "preview", error |-> "none",
        blocks |-> parseDiffBlocks(diffContent)]
  ELSE [threw |-> FALSE, kind |-> "error", error |-> o.error, blocks |-> <<>>]

\* previewFileDiff(filePath, diffContent), called instead of applyFileDiff
PreviewFileDiff ==
  /\ proc = "called"
  /\ run = <<>>
  /\ \E answer \in CheckAnswers(permissions, approvedCommands, "file_read", <<>>) :
       LET o == readFile(permissions, approvedCommands, fs, DiffPath, answer) IN
       /\ permissions' = o.permissions
       /\ approvedCommands' = o.approvedCommands
       /\ fs' = o.fs
       /\ last' = Call("readFile", DiffPath, "file_read", o)
       /\ probe' = [probe EXCEPT !.preview = PreviewResult(o, response)]
  /\ proc' = "previewed"
  /\ UNCHANGED <<actions, run, before, textVars>>

\* a call that has ended: the error it threw ("none" if it returned) and the
\* file as it was read
Ended(error) == [error |-> error, lines |-> before]

\* const currentContent = await readFile(filePath); split into lines
DiffReadFile ==
  /\ proc = "called"
  /\ \E answer \in DiffAnswers("file_read") :
       LET o == readFile(permissions, approvedCommands, fs, DiffPath, answer) IN
       /\ permissions' = o.permissions
       /\ approvedCommands' = o.approvedCommands
       /\ last' = Call("readFile", DiffPath, "file_read", o)
       /\ IF o.error = "none"
          THEN before' = Split(o.value) /\ proc' = "read" /\ run' = run
          ELSE /\ before' = before
               /\ proc' = "failed"
               /\ run' = Append(run, Ended(o.error))
  /\ UNCHANGED <<fs, probe, actions, textVars>>

\* parseDiffBlocks, then the loop over diffBlocks.reverse(), then the join
DiffApplyBlocks ==
  /\ proc = "read"
  /\ actions' = parseDiffBlocks(response)
  /\ LET r == ApplyBlocks(before, Reverse(parseDiffBlocks(response))) IN
     IF r.threw
     THEN /\ proc' = "failed"
          /\ run' = Append(run, Ended("PatternNotFound"))
          /\ processedResponse' = processedResponse
     ELSE /\ proc' = "patched"
          /\ run' = run
          /\ processedResponse' = Join(r.lines)
  /\ UNCHANGED <<permissions, approvedCommands, fs, last, probe, before, response>>

\* await writeFile(filePath, newContent)
DiffWriteFile ==
  /\ proc = "patched"
  /\ \E answer \in DiffAnswers("file_write"), dirOk \in BOOLEAN :
       LET o == writeFile(permissions, approvedCommands, fs, DiffPath,
                          processedResponse, dirOk, answer) IN
       /\ permissions' = o.permissions
       /\ approvedCommands' = o.approvedCommands
       /\ fs' = o.fs
       /\ last' = Call("writeFile", DiffPath, "file_write", o)
       /\ proc' = IF o.error = "none" THEN "returned" ELSE "failed"
       /\ run' = Append(run, Ended(o.error))
       /\ probe' = IF o.error # "none" THEN probe
                   ELSE [probe EXCEPT !.summary =
                           formatDiffResult(DiffPath, actions,
                                            ApplyBlocks(before, Reverse(actions)).changes,
                                            Len(Join(before)), Len(processedResponse))]
  /\ UNCHANGED <<actions, before, textVars>>

\* the same diff is applied to the same path once more
CallAgain ==
  /\ proc = "returned"
  /\ Len(run) < MaxCalls
  /\ proc' = "called"
  /\ actions' = <<>>
  /\ before' = <<>>
  /\ processedResponse' = <<>>
  /\ UNCHANGED <<permissions, approvedCommands, fs, last, probe, run, response>>

\* the caller reads the file after the call has returned
ReadBack ==
  /\ proc = "returned"
  /\ \E answer \in DiffAnswers("file_read") :
       LET o == readFile(permissions, approvedCommands, fs, DiffPath, answer) IN
       /\ o.error = "none"
       /\ permissions' = o.permissions
       /\ approvedCommands' = o.approvedCommands
       /\ last' = Call("readFile", DiffPath, "file_read", o)
       /\ probe' = [probe EXCEPT !.read = o.value]
  /\ proc' = "readBack"
  /\ UNCHANGED <<fs, actions, run, before, textVars>>

NextDiff ==
  \/ DiffReadFile
  \/ DiffApplyBlocks
  \/ DiffWriteFile
  \/ CallAgain
  \/ ReadBack
  \/ PreviewFileDiff

SpecDiff == InitDiff /\ [][NextDiff]_vars

----------------------------------------------------------------------------
(* Properties of applyFileDiff (SpecDiff)                                  *)

\* every block of the sequence applies, each to the lines the one before it
\* left
RECURSIVE EveryBlockApplies(_, _)
EveryBlockApplies(lines, blocks) ==
  \/ blocks = <<>>
  \/ /\ ~applyDiffBlock(lines, Head(blocks)).threw
     /\ EveryBlockApplies(applyDiffBlock(lines, Head(blocks)).lines, Tail(blocks))

\* the lines those blocks leave
RECURSIVE PatchedLines(_, _)
PatchedLines(lines, blocks) ==
  IF blocks = <<>> THEN lines
  ELSE PatchedLines(applyDiffBlock(lines, Head(blocks)).lines, Tail(blocks))

\* the step calls fs.writeFile or changes a file
WritesFile == fs' # fs \/ (last' # last /\ last'.sys = "fs.writeFile")

\* C17: applyFileDiff writes the file at most once, as its last step, and
\* only when every parsed block has applied in memory; what it writes is the
\* fully patched content; a call that fails leaves the file as it was.
C17_AllOrNothing ==
  [][/\ WritesFile =>
          /\ proc = "patched" /\ proc' \in {"returned", "failed"}
          /\ last'.result = "allowed"
          /\ DiffPath \in DOMAIN fs
          /\ EveryBlockApplies(Split(fs[DiffPath]), Reverse(parseDiffBlocks(response)))
          /\ fs' # fs =>
               fs' = (DiffPath :>
                        Join(PatchedLines(Split(fs[DiffPath]),
                                          Reverse(parseDiffBlocks(response)))))
     /\ proc' = "failed" => fs' = fs
    ]_vars

\* the block applied first fits, the next one is not found, and the file
\* still holds what was read
C17_Witness ==
  /\ proc = "failed"
  /\ run # <<>> /\ run[Len(run)].error = "PatternNotFound"
  /\ Len(actions) = 2
  /\ ~applyDiffBlock(before, actions[2]).threw
  /\ applyDiffBlock(before, actions[2]).lines # before
  /\ fs = (DiffPath :> Join(before))

\* C18: parseDiffBlocks returns the blocks in the order in which they stand
\* in the diff text, whatever their kind.
C18_DocumentOrder ==
  proc \in {"patched", "returned", "readBack"} => actions = probe.written

\* the diff is one replace block
OneReplaceBlock == Len(probe.written) = 1 /\ probe.written[1].type = "replace"

\* the diff has been applied and written once and a second call has read
\* the file and gone through its blocks
AppliedAgain ==
  /\ OneReplaceBlock
  /\ run # <<>> /\ run[1].error = "none"
  /\ \/ Len(run) = 1 /\ proc = "patched"
     \/ Len(run) >= 2 /\ run[2].error \notin {"PermissionDenied", "IOFailure", "TypeError"}

\* C19: a replace-block diff applied a second time always fails with
\* pattern-not-found and leaves the file unchanged.
C19_SecondApplyAlwaysFails ==
  AppliedAgain =>
    /\ Len(run) >= 2
    /\ run[2].error = "PatternNotFound"
    /\ fs = (DiffPath :> Join(run[2].lines))

\* C19 as the code has it: the second application fails with
\* pattern-not-found, the file unchanged, exactly when the patched file has
\* no span matching the search lines; when it has one, the first such span
\* is replaced once more.
C19_SecondApplyFailsUnlessSpan ==
  /\ OneReplaceBlock /\ run # <<>> /\ proc = "patched" =>
       /\ HasSpan(before, Split(probe.written[1].search))
       /\ \E i \in 0..Len(before) :
            /\ IsFirstSpan(before, Split(probe.written[1].search), i)
            /\ processedResponse
                 = Join(SubSeq(before, 1, i) \o Split(probe.written[1].payload)
                          \o SubSeq(before, i + Len(Split(probe.written[1].search)) + 1,
                                    Len(before)))
  /\ OneReplaceBlock /\ Len(run) >= 2 /\ run[Len(run)].error = "PatternNotFound" =>
       /\ ~HasSpan(run[Len(run)].lines, Split(probe.written[1].search))
       /\ proc = "failed"
       /\ fs = (DiffPath :> Join(run[Len(run)].lines))

\* a payload that holds the search line: the second application succeeds
C19_Witness ==
  /\ probe.written = <<ReplaceBlock(<<"a">>, <<"a", "\n", "b">>)>>
  /\ Len(run) = 2 /\ run[2].error = "none"
  /\ proc = "returned"
  /\ fs = (DiffPath :> <<"a", "\n", "b", "\n", "b">>)

\* the diff applied last was one replace block whose search text was the
\* whole file, found once, with the payload x
SetsContentTo(x) ==
  /\ proc = "readBack"
  /\ OneReplaceBlock
  /\ probe.written[1].payload = x
  /\ probe.written[1].search = Join(run[Len(run)].lines)
  /\ Cardinality({i \in 0..Len(run[Len(run)].lines) :
                    IsSpan(run[Len(run)].lines, Split(probe.written[1].search), i)}) = 1

\* C20: after applyFileDiff with one replace block whose search text is the
\* whole content of the file and whose payload is X, reading the file gives
\* exactly X.
C20_RoundTrip ==
  \A x \in {b.payload : b \in DiffBlocks} : SetsContentTo(x) => probe.read = x

\* a file and a payload that both end in a line break
C20_Witness ==
  /\ SetsContentTo(<<"b", "\n">>)
  /\ run[Len(run)].lines = << <<"a">>, <<>> >>
  /\ probe.read = <<"b", "\n">>

\* the changed-line count of a block as the summary is said to count it
RECURSIVE SumOfMax(_)
SumOfMax(blocks) ==
  IF blocks = <<>> THEN 0
  ELSE Max(Len(Split(Head(blocks).search)), Len(Split(Head(blocks).payload)))
         + SumOfMax(Tail(blocks))

\* the same, an insert block counting its payload lines only
RECURSIVE SumOfChanges(_)
SumOfChanges(blocks) ==
  IF blocks = <<>> THEN 0
  ELSE (IF Head(blocks).type = "replace"
        THEN Max(Len(Split(Head(blocks).search)), Len(Split(Head(blocks).payload)))
        ELSE Len(Split(Head(blocks).payload)))
         + SumOfChanges(Tail(blocks))

\* the call has returned its summary
Summarised == proc = "returned" /\ probe.summary # NoSummary

\* C21: the summary of applyFileDiff gives the number of parsed blocks and,
\* as changed lines, the sum over the blocks of either kind of the larger of
\* the number of search lines and the number of payload lines.
C21_SummaryCountsMaxPerBlock ==
  Summarised =>
    /\ probe.summary.blocks = Len(actions)
    /\ probe.summary.totalChanges = SumOfMax(actions)

\* C21 as the code has it: a replace block counts the larger of its search
\* and payload lines, an insert block its payload lines.
C21_SummaryCountsChanges ==
  Summarised =>
    /\ probe.summary.blocks = Len(actions)
    /\ probe.summary.totalChanges = SumOfChanges(actions)

\* a replace of one line by two and an insert of one line after a two-line
\* anchor, three changed lines reported
C21_Witness ==
  /\ Summarised
  /\ Len(actions) = 2
  /\ actions[1] = ReplaceBlock(<<"a">>, <<"a", "\n", "b">>)
  /\ actions[2] = InsertBlock(<<"a", "\n", "a">>, S_b)
  /\ probe.summary.totalChanges = 3

\* the block is what parseDiffBlocks makes of a SEARCH block with nothing
\* between the opening marker and the separator
ParsedFromEmptySearch(block) ==
  /\ block.type = "replace"
  /\ parseDiffBlocks(S_SEARCH_OPEN \o S_SEPARATOR \o block.payload \o S_REPLACE_CLOSE)
       = <<block>>

\* C22: a block with an empty search part never matches: applied to any
\* lines, blank lines among them, it fails with pattern-not-found and gives
\* no lines.
C22_EmptySearchNeverMatches ==
  probe.fn = "applyReplaceBlock" /\ ParsedFromEmptySearch(probe.block) =>
    probe.threw /\ probe.result = <<>>

\* C23: previewFileDiff never writes: it asks for no file_write permission,
\* calls no writeFile, leaves every file as it was and never throws; a
\* denied or failed read comes back as an error text.
C23_PreviewNeverWrites ==
  [][proc' = "previewed" =>
       /\ fs' = fs
       /\ last'.op = "readFile" /\ last'.actionType = "file_read"
       /\ last'.sys \in {"none", "fs.readFile"}
       /\ permissions'["file_write"] = permissions["file_write"]
       /\ ~probe'.preview.threw
       /\ IF last'.error = "none"
          THEN probe'.preview.kind = "preview"
          ELSE probe'.preview.kind = "error" /\ probe'.preview.error = last'.error
    ]_vars

\* the user refused the read and the preview came back as an error text
C23_Witness ==
  /\ proc = "previewed"
  /\ last.prompted /\ last.error = "PermissionDenied"
  /\ probe.preview.kind = "error"
  /\ Len(probe.written) = 2

----------------------------------------------------------------------------
(* Properties of the approved list and the configuration (SpecGate)        *)

NoDuplicates(l) == \A i, j \in 1..Len(l) : l[i] = l[j] => i = j

\* l without its entries equal to c
RECURSIVE Without(_, _)
Without(l, c) ==
  IF l = <<>> THEN <<>>
  ELSE IF Head(l) = c THEN Without(Tail(l), c)
  ELSE <<Head(l)>> \o Without(Tail(l), c)

\* the step is a call of the list operation op
ListStep(op) == last' # last /\ last'.op = op

\* the list is an array (or absent, which reads as the defaults) without
\* duplicates
GoodList(ac) == IsArray(ac) /\ NoDuplicates(getApprovedCommands(ac))

\* C24: starting from the default list, addApprovedCommand appends a new
\* command at the end and does nothing for one already there,
\* removeApprovedCommand deletes exactly that entry and does nothing for an
\* absent one, resetApprovedCommands restores the defaults, and the list
\* never holds a duplicate.
C24_ListIsOrderedSet ==
  [][GoodList(approvedCommands) =>
       LET l == getApprovedCommands(approvedCommands) IN
       /\ ListStep("addApprovedCommand") =>
            /\ GoodList(approvedCommands')
            /\ getApprovedCommands(approvedCommands')
                 = IF Includes(l, last'.arg) THEN l ELSE Append(l, last'.arg)
       /\ ListStep("removeApprovedCommand") =>
            /\ GoodList(approvedCommands')
            /\ getApprovedCommands(approvedCommands') = Without(l, last'.arg)
       /\ ListStep("resetApprovedCommands") =>
            /\ GoodList(approvedCommands')
            /\ getApprovedCommands(approvedCommands') = DEFAULT_APPROVED_COMMANDS
    ]_vars

----------------------------------------------------------------------------
(* SpecExec: handleExecCommand called with one params text                 *)

ExecParams ==
  {<<"c", "u", "r", "l">>,
   <<"C", "u", "r", "l", " ", "x">>,
   <<" ", "p", "i", "n", "g", " ">>,
   <<"p", "i", "n", "g", "p", "o", "n", "g">>,
   <<"l", "s">>,
   <<"e", "c", "h", "o", " ", "c", "u", "r", "l">>,
   <<"n", "p", "m">>,
   <<"n", "p", "m", " ", " ", "r", "u", "n">>,
   <<"s", "l", "e", "e", "p", ":", "W", "O", "R", "K", "D", "I", "R", ":", "d">>,
   <<"l", "s", ":", "W", "O", "R", "K", "D", "I", "R", ":", "c", "u", "r", "l">>,
   <<"n", "p", "m", " ", "t", "e", "s", "t">>,
   <<"N", "P", "M", " ", "R", "U", "N", " ", "a">>,
   <<"g", "i", "t", " ", "c", "l", "o", "n", "e">>,
   <<"g", "i", "t", " ", "s", "t", "a", "t", "u", "s">>,
   <<"w", "g", "e", "t">>,
   <<"n", "p", "m", " ", "i", "n", "s", "t", "a", "l", "l", " ", "x">>}

ExecPermissions ==
  {NoPermissions, setAutoApprove(NoPermissions, "command_exec"),
   setActionAllowedForever(NoPermissions, "command_exec")}

InitExec ==
  /\ permissions \in ExecPermissions
  /\ approvedCommands = AbsentList
  /\ fs = <<>>
  /\ last = ConfigCall("none", <<>>, FALSE)
  /\ probe = NoProbe
  /\ actions = <<>>
  /\ run = <<>>
  /\ before = <<>>
  /\ proc = "called"
  /\ response \in ExecParams
  /\ processedResponse = <<>>

\* the handler awaits executeCommand, with the onOutput callback for a
\* long-running command and without it otherwise
HandleExecCommand ==
  /\ proc = "called"
  /\ LET c == handleExecCommand(response).calls[1] IN
     \E answer \in CheckAnswers(permissions, approvedCommands, "command_exec", c.arg),
        child \in ChildEnds :
       LET o == executeCommand(permissions, approvedCommands, fs, c.arg, c.streaming,
                               child, answer) IN
       /\ permissions' = o.permissions
       /\ approvedCommands' = o.approvedCommands
       /\ fs' = o.fs
       /\ last' = Call("executeCommand", c.arg, "command_exec", o)
       /\ probe' = [fn |-> "handleExecCommand", params |-> response, child |-> child]
       /\ proc' = IF o.error = "none" THEN "returned" ELSE "failed"
  /\ UNCHANGED <<actions, run, before, textVars>>

NextExec == HandleExecCommand

SpecExec == InitExec /\ [][NextExec]_vars

\* the eight prefixes
LongRunningPrefixes ==
  {<<"n", "p", "m", " ", "i", "n", "s", "t", "a", "l", "l">>,
   <<"n", "p", "m", " ", "t", "e", "s", "t">>,
   <<"n", "p", "m", " ", "r", "u", "n">>,
   <<"g", "i", "t", " ", "c", "l", "o", "n", "e">>,
   <<"w", "g", "e", "t">>,
   <<"c", "u", "r", "l">>,
   <<"p", "i", "n", "g">>,
   <<"s", "l", "e", "e", "p">>}

StartsWith(s, prefix) == Len(prefix) <= Len(s) /\ SubSeq(s, 1, Len(prefix)) = prefix

----------------------------------------------------------------------------
(* SpecStream: one call of executeCommandStreaming and the events of its   *)
(* child process                                                           *)

MaxChunks == 2

Chunks == {<<"x">>, <<"y", "\n">>}

\* the promise, the child and the timer right after the executor has run
Spawned ==
  [fn |-> "executeCommandStreaming", promise |-> "pending", error |-> "none",
   value |-> [stdout |-> <<>>, stderr |-> <<>>], settles |-> 0,
   child |-> "running", code |-> "none", killed |-> FALSE, timer |-> "armed",
   stdout |-> <<>>, stderr |-> <<>>]

\* a promise on which the last resolve or reject wins
SettlePromise_LastWins(p, promise, error) ==
  [p EXCEPT !.promise = promise, !.error = error,
            !.value = IF promise = "resolved"
                      THEN [stdout |-> p.stdout, stderr |-> p.stderr] ELSE @,
            !.settles = IF @ < 2 THEN @ + 1 ELSE @]

\* resolve({stdout, stderr}) or reject(error): only the first call on a
\* promise has an effect
SettlePromise(p, promise, error) ==
  IF p.promise # "pending" THEN [p EXCEPT !.settles = IF @ < 2 THEN @ + 1 ELSE @]
  ELSE [p EXCEPT !.promise = promise, !.error = error,
                 !.value = IF promise = "resolved"
                           THEN [stdout |-> p.stdout, stderr |-> p.stderr] ELSE @,
                 !.settles = 1]

InitStream ==
  /\ permissions = NoPermissions
  /\ approvedCommands = AbsentList
  /\ fs = <<>>
  /\ last = ConfigCall("none", <<>>, FALSE)
  /\ probe = Spawned
  /\ actions = <<>>
  /\ run = <<>>
  /\ before = <<>>
  /\ proc = "awaiting"
  /\ response = <<>>
  /\ processedResponse = <<>>

streamFrame == <<permissions, approvedCommands, fs, last, actions, textVars>>

\* child.stdout.on('data') and child.stderr.on('data'): before is what has
\* arrived, run what onOutput has been called with
Data(type, chunk) ==
  /\ probe.child = "running"
  /\ Len(before) < MaxChunks
  /\ before' = Append(before, [type |-> type, chunk |-> chunk])
  /\ run' = Append(run, [type |-> type, chunk |-> chunk])
  /\ probe' = IF type = "stdout" THEN [probe EXCEPT !.stdout = @ \o chunk]
              ELSE [probe EXCEPT !.stderr = @ \o chunk]
  /\ UNCHANGED <<streamFrame, proc>>

\* child.on('close'): both listeners, the one that settles and the one that
\* clears the timer; a child ended by a signal closes with code null
Close(code) ==
  /\ probe.child \in {"running", "errored"}
  /\ probe' = [SettlePromise(probe, IF code = "0" THEN "resolved" ELSE "rejected",
                      IF code = "0" THEN "none" ELSE "ExitCode")
                 EXCEPT !.child = "closed", !.code = code,
                        !.timer = IF @ = "armed" THEN "cleared" ELSE @]
  /\ UNCHANGED <<streamFrame, proc, run, before>>

\* child.on('error'): the process could not be spawned
ErrorEvent ==
  /\ probe.child = "running"
  /\ before = <<>>
  /\ ~probe.killed
  /\ probe' = [SettlePromise(probe, "rejected", "SpawnError") EXCEPT !.child = "errored"]
  /\ UNCHANGED <<streamFrame, proc, run, before>>

\* the setTimeout callback: child.kill() and reject
TimerFires ==
  /\ probe.timer = "armed"
  /\ probe' = [SettlePromise(probe, "rejected", "Timeout")
                 EXCEPT !.timer = "fired",
                        !.killed = probe.child = "running"]
  /\ UNCHANGED <<streamFrame, proc, run, before>>

\* the await in executeCommand ends; a rejection is rethrown from its catch
\* block and caught by the loop of processActions
AwaitEnds ==
  /\ proc = "awaiting"
  /\ probe.promise # "pending"
  /\ proc' = IF probe.promise = "rejected" THEN LoopAfterError(probe.error) ELSE "looping"
  /\ UNCHANGED <<streamFrame, probe, run, before>>

NextStream ==
  \/ \E type \in {"stdout", "stderr"}, chunk \in Chunks : Data(type, chunk)
  \/ \E code \in {"0", "1", "null"} : Close(code)
  \/ ErrorEvent
  \/ TimerFires
  \/ AwaitEnds

SpecStream == InitStream /\ [][NextStream]_vars

\* the timer, once armed, fires unless it is cleared; a settled await ends
SpecStreamFair == SpecStream /\ WF_vars(TimerFires) /\ WF_vars(AwaitEnds)

\* the chunks of one stream among those that arrived, joined
RECURSIVE Arrived(_, _)
Arrived(chunks, type) ==
  IF chunks = <<>> THEN <<>>
  ELSE (IF Head(chunks).type = type THEN Head(chunks).chunk ELSE <<>>)
         \o Arrived(Tail(chunks), type)

\* the step settles the promise
Settles == probe.promise = "pending" /\ probe'.promise # "pending"

\* C26: a streaming execution always settles, and once: by the first of a
\* close with code 0 (resolved with everything that arrived, every chunk
\* having gone to onOutput in arrival order), a close with another code
\* (rejected), a spawn error (rejected) or the timer (child killed, rejected
\* with the timeout error); later events change nothing, and the rejection
\* does not end the loop over the actions of the reply.
C26_SettlesOnceByFirstEvent ==
  /\ <>(probe.promise # "pending")
  /\ <>(proc = "looping")
  /\ [][/\ probe.promise # "pending" =>
             /\ probe'.promise = probe.promise
             /\ probe'.error = probe.error
             /\ probe'.value = probe.value
        /\ Settles =>
             \/ /\ probe.child # "closed" /\ probe'.child = "closed" /\ probe'.code = "0"
                /\ probe'.promise = "resolved"
                /\ probe'.value = [stdout |-> Arrived(before, "stdout"),
                                   stderr |-> Arrived(before, "stderr")]
                /\ run = before
             \/ /\ probe.child # "closed" /\ probe'.child = "closed" /\ probe'.code # "0"
                /\ probe'.promise = "rejected" /\ probe'.error = "ExitCode"
             \/ /\ probe.child = "running" /\ probe'.child = "errored"
                /\ probe'.promise = "rejected" /\ probe'.error = "SpawnError"
             \/ /\ probe.timer = "armed" /\ probe'.timer = "fired"
                /\ probe'.killed
                /\ probe'.promise = "rejected" /\ probe'.error = "Timeout"
        /\ proc' # "threw"
       ]_vars

\* the timer fired first, the killed child closed afterwards, and the loop
\* went on
C26_Witness ==
  /\ probe.fn = "executeCommandStreaming"
  /\ probe.promise = "rejected" /\ probe.error = "Timeout"
  /\ probe.killed /\ probe.child = "closed" /\ probe.settles = 2
  /\ Len(run) = MaxChunks
  /\ proc = "looping"

----------------------------------------------------------------------------
(* SpecQuery: the turns of a session, EnhancedAIAgent.query over            *)
(* AIAgent.query, and clearHistory                                         *)

MaxQueries == 2

Messages == {<<"h", "i">>, <<"y", "o">>}

\* what the model answers, as the tokens processActions finds in it
QueryReplies ==
  { <<>>,
    <<ActionToken("DELETE_FILE", S_a_txt)>>,
    <<ActionToken("EXEC_COMMAND", S_rm_rf)>> }

Turn(role, content) == [role |-> role, content |-> content]

\* a history that grows at the front
PushTurn_Front(history, role, content) == <<Turn(role, content)>> \o history

\* this.conversationHistory.push({ role, content, timestamp })
PushTurn(history, role, content) == Append(history, Turn(role, content))

\* a catch block that takes the user's turn back
CallFailed_PopsUser(history) == SubSeq(history, 1, Len(history) - 1)

\* a catch block that records the error as the assistant's turn
CallFailed_LogsError(history) == PushTurn(history, "assistant", <<>>)

\* catch (error) { throw new Error(`AI query failed: ...`) }
CallFailed(history) == history

Count(history, role) == Cardinality({i \in 1..Len(history) : history[i].role = role})

getStats(history) ==
  [totalMessages |-> Len(history),
   userMessages |-> Count(history, "user"),
   assistantMessages |-> Count(history, "assistant")]

\* buildMessageHistory(): the system prompt, then the turns without their
\* timestamps
buildMessageHistory(history) ==
  <<Turn("system", <<>>)>>
    \o [i \in 1..Len(history) |-> Turn(history[i].role, history[i].content)]

\* a query that processes the reply whatever the flag is
ProcessesReply_Always(agent) == TRUE

\* if (this.enableActions) in EnhancedAIAgent.query
ProcessesReply(agent) == agent.enableActions

getActionsEnabled(agent) == agent.enableActions

\* the text processActions returns: each token replaced by the block of its
\* outcome
SplicedReply(acts, outs) ==
  [k \in 1..Len(acts) |-> [token |-> acts[k], st |-> outs[k].st, error |-> outs[k].error]]

\* an agent that puts the text it returns in the place of the reply it
\* recorded
RecordProcessed_Rewrites(history, processed) ==
  [history EXCEPT ![Len(history)] = Turn("assistant", processed)]

\* EnhancedAIAgent.query after processActions: the history stays as
\* AIAgent.query left it
RecordProcessed(history, processed) == history

\* a new agent; asked, succeeded and failed record the queries made since
\* the history was last empty, seen the state the current turn started in,
\* sent the roles of the messages of the latest model call, afterFailure
\* whether the query before it failed, returned what the latest query
\* returned and lastSet the latest value given for enableActions
NewAgent(enableActions) ==
  [fn |-> "constructor", conversationHistory |-> <<>>, enableActions |-> enableActions,
   asked |-> <<>>, succeeded |-> 0, failed |-> 0, error |-> "none",
   seen |-> <<>>, sent |-> <<>>, afterFailure |-> FALSE, returned |-> <<>>,
   lastSet |-> enableActions]

InitQuery ==
  /\ permissions \in AgentPermissions
  /\ approvedCommands = AbsentList
  /\ fs = (S_a_txt :> S_x)
  /\ last = ConfigCall("none", <<>>, FALSE)
  /\ probe \in {NewAgent(e) : e \in BOOLEAN}
  /\ actions = <<>>
  /\ run = <<>>
  /\ before = getApprovedCommands(approvedCommands)
  /\ proc = "idle"
  /\ response = <<>>
  /\ processedResponse = <<>>

BetweenTurns == {"idle", "returned", "threw"}

\* query(message) up to the await of callAI: the user's turn is pushed
Query(message) ==
  /\ proc \in BetweenTurns
  /\ Len(probe.asked) < MaxQueries
  /\ probe' = [probe EXCEPT !.fn = "query",
                            !.conversationHistory = PushTurn(@, "user", message),
                            !.asked = Append(@, message),
                            !.error = "none",
                            !.seen = Snapshot(permissions, approvedCommands, fs),
                            !.sent = buildMessageHistory(
                                       PushTurn(probe.conversationHistory, "user", message)),
                            !.afterFailure = probe.fn = "query"
                                               /\ probe.error = "AIQueryFailed",
                            !.returned = <<>>]
  /\ actions' = <<>>
  /\ run' = <<>>
  /\ last' = ConfigCall("none", <<>>, FALSE)
  /\ proc' = "calling"
  /\ UNCHANGED <<permissions, approvedCommands, fs, before, textVars>>

\* callAI rejects: AIAgent.query rethrows, and so does EnhancedAIAgent.query
CallFails ==
  /\ proc = "calling"
  /\ probe' = [probe EXCEPT !.conversationHistory = CallFailed(@),
                            !.failed = @ + 1,
                            !.error = "AIQueryFailed"]
  /\ proc' = "threw"
  /\ UNCHANGED <<permissions, approvedCommands, fs, last, actions, run, before, textVars>>

\* callAI resolves: the assistant's turn is pushed, and with actions enabled
\* processActions starts on the reply
CallSucceeds(reply) ==
  /\ proc = "calling"
  /\ probe' = [probe EXCEPT !.conversationHistory = PushTurn(@, "assistant", reply),
                            !.succeeded = @ + 1,
                            !.returned = IF ProcessesReply(probe) /\ reply # <<>>
                                         THEN @ ELSE reply]
  /\ IF ProcessesReply(probe) /\ reply # <<>>
     THEN /\ actions' = reply
          /\ run' = [k \in 1..Len(reply) |-> FreshRun]
          /\ proc' = "looping"
     ELSE /\ UNCHANGED <<actions, run>>
          /\ proc' = "returned"
  /\ before' = getApprovedCommands(approvedCommands)
  /\ UNCHANGED <<permissions, approvedCommands, fs, last, textVars>>

\* clearHistory()
ClearHistory ==
  /\ proc \in BetweenTurns
  /\ probe.conversationHistory # <<>>
  /\ probe' = [probe EXCEPT !.fn = "clearHistory", !.conversationHistory = <<>>,
                            !.asked = <<>>, !.succeeded = 0, !.failed = 0]
  /\ UNCHANGED <<permissions, approvedCommands, fs, last, actions, run, before, proc,
                 textVars>>

\* return await this.processActions(response)
ReturnProcessedReply ==
  /\ proc = "looping"
  /\ \A k \in 1..Len(actions) : run[k].st \in Settled
  /\ proc' = "returned"
  /\ probe' = [probe EXCEPT !.returned = SplicedReply(actions, run),
                            !.conversationHistory =
                              RecordProcessed(@, SplicedReply(actions, run))]
  /\ UNCHANGED <<permissions, approvedCommands, fs, last, actions, run, before, textVars>>

\* setActionsEnabled(enabled), between two queries or while the model call
\* of one is pending
SetActionsEnabled(enabled) ==
  /\ proc \in BetweenTurns \cup {"calling"}
  /\ probe' = [probe EXCEPT !.enableActions = enabled, !.lastSet = enabled]
  /\ UNCHANGED <<permissions, approvedCommands, fs, last, actions, run, before, proc,
                 textVars>>

NextQuery ==
  \/ \E message \in Messages : Query(message)
  \/ CallFails
  \/ \E reply \in QueryReplies : CallSucceeds(reply)
  \/ ClearHistory
  \/ \E k \in 1..MaxActions : k <= Len(actions) /\ Begin(k)
  \/ \E k \in 1..MaxActions : k <= Len(actions) /\ Decide(k)
  \/ \E k \in 1..MaxActions : k <= Len(actions) /\ Complete(k)
  \/ ReturnProcessedReply
  \/ \E enabled \in BOOLEAN : SetActionsEnabled(enabled)

SpecQuery == InitQuery /\ [][NextQuery]_vars

----------------------------------------------------------------------------
(* Properties of the history and of a failed turn (SpecQuery)              *)

IsPrefix(s, t) == Len(s) <= Len(t) /\ \A i \in 1..Len(s) : t[i] = s[i]

\* C27: the history is append-only and chronological: after n successful
\* queries on a fresh agent it holds 2n turns, user and assistant
\* alternating, in the order the queries were made; getStats reports
\* totalMessages = userMessages + assistantMessages = 2n; query never
\* changes or removes a turn; and only clearHistory empties the history.
C27_HistoryAppendOnly ==
  /\ [](LET h == probe.conversationHistory
            n == probe.succeeded IN
        probe.failed = 0 /\ proc # "calling" =>
          /\ Len(h) = 2 * n
          /\ \A i \in 1..n : /\ h[2 * i - 1] = Turn("user", probe.asked[i])
                             /\ h[2 * i].role = "assistant"
          /\ getStats(h).totalMessages = 2 * n
          /\ getStats(h).totalMessages
               = getStats(h).userMessages + getStats(h).assistantMessages)
  /\ [][/\ probe'.fn # "clearHistory" =>
             IsPrefix(probe.conversationHistory, probe'.conversationHistory)
        /\ probe.conversationHistory # <<>> /\ probe'.conversationHistory = <<>> =>
             probe'.fn = "clearHistory"
       ]_vars

\* two queries succeeded on a fresh agent
C27_Witness ==
  /\ probe.fn = "query" /\ probe.failed = 0 /\ probe.succeeded = 2
  /\ proc = "returned"
  /\ Len(probe.conversationHistory) = 4
  /\ probe.conversationHistory[1].content # probe.conversationHistory[3].content

\* C28: when the model call of a turn fails, the query fails with that
\* error and nothing else comes of the turn: no action is parsed or run, no
\* prompt is shown, no file, permission or approved command changes, and
\* no assistant turn is appended.
C28_FailedCallIsOnlyOutcome ==
  probe.fn = "query" /\ probe.error = "AIQueryFailed" =>
    /\ proc = "threw"
    /\ actions = <<>> /\ run = <<>>
    /\ ~last.prompted /\ last.sys = "none"
    /\ Snapshot(permissions, approvedCommands, fs) = probe.seen
    /\ LET h == probe.conversationHistory IN
         /\ h # <<>>
         /\ h[Len(h)] = Turn("user", probe.asked[Len(probe.asked)])
         /\ Count(h, "assistant") = probe.succeeded

\* an earlier turn of the session ran an action that deleted a file, and
\* the model call of this turn failed
C28_Witness ==
  /\ probe.error = "AIQueryFailed" /\ proc = "threw"
  /\ probe.enableActions
  /\ probe.succeeded = 1
  /\ fs # (S_a_txt :> S_x)

----------------------------------------------------------------------------
(* SpecMarkdown: a reply whose action token is set in markdown             *)

S_backtick == <<Backtick>>
S_bold == <<"*", "*">>

MarkdownWraps == {<<>>, S_backtick, S_bold}

S_READ_FILE == <<"R", "E", "A", "D", "_", "F", "I", "L", "E">>
S_DELETE_FILE == <<"D", "E", "L", "E", "T", "E", "_", "F", "I", "L", "E">>
S_LIST_FILES == <<"L", "I", "S", "T", "_", "F", "I", "L", "E", "S">>

S_SHOW_COMMANDS == <<"S", "H", "O", "W", "_", "C", "O", "M", "M", "A", "N", "D", "S">>
S_SHOW_PERMISSIONS ==
  <<"S", "H", "O", "W", "_", "P", "E", "R", "M", "I", "S", "S", "I", "O", "N", "S">>
S_RESET_PERMISSIONS ==
  <<"R", "E", "S", "E", "T", "_", "P", "E", "R", "M", "I", "S", "S", "I", "O", "N", "S">>

MarkdownTypes == {S_READ_FILE, S_DELETE_FILE, S_LIST_FILES}

\* the case of the switch in executeAction that the matched type selects
CaseOf(type) ==
  CASE type = S_READ_FILE -> "READ_FILE"
    [] type = S_DELETE_FILE -> "DELETE_FILE"
    [] type = S_LIST_FILES -> "LIST_FILES"
    [] type = S_SHOW_COMMANDS -> "SHOW_COMMANDS"
    [] type = S_SHOW_PERMISSIONS -> "SHOW_PERMISSIONS"
    [] type = S_RESET_PERMISSIONS -> "RESET_PERMISSIONS"
    [] OTHER -> "default"

MarkdownValues == {S_a_txt, S_dot}

TextBefore == {<<>>, <<"p", " ">>, <<"p", "\n">>}

TextAfter == {<<>>, <<"\n">>, <<"\n", "p">>, <<".">>}

\* the reply: text, the token with its value between two marks, text
MarkdownReply(pre, wrap, type, value, post) ==
  pre \o wrap \o S_ACTION \o type \o S_colon \o value \o wrap \o post

InitMarkdown ==
  /\ permissions = NoPermissions
  /\ approvedCommands = AbsentList
  /\ fs = <<>>
  /\ last = ConfigCall("none", <<>>, FALSE)
  /\ probe = NoProbe
  /\ actions = <<>>
  /\ run = <<>>
  /\ \E pre \in TextBefore, wrap \in MarkdownWraps, type \in MarkdownTypes,
        value \in MarkdownValues, post \in TextAfter :
       /\ before = [wrap |-> wrap, value |-> value]
       /\ response = MarkdownReply(pre, wrap, type, value, post)
  /\ proc = "called"
  /\ processedResponse = <<>>

\* await this.executeAction(action.type, action.params): the handler is
\* given the params, and text is the argument of the first call it makes
HandOver(k) ==
  /\ proc = "looping"
  /\ run[k].st = "pending"
  /\ LoopGuard(run, k)
  /\ LET plan == executeAction(CaseOf(actions[k].type), actions[k].params) IN
       run' = [run EXCEPT ![k] = [st |-> "ok", text |-> plan.calls[1].arg]]
  /\ UNCHANGED <<permissions, approvedCommands, fs, last, probe, actions, before, proc,
                 textVars>>

NextMarkdown ==
  \/ FindActions
  \/ \E k \in 1..MaxPieces : k <= Len(actions) /\ HandOver(k)
  \/ ReturnProcessed

SpecMarkdown == InitMarkdown /\ [][NextMarkdown]_vars

\* C29: the handler of an action token set in backticks is given the bare
\* value as its params, with no closing backtick and no other markdown.
C29_BacktickTokenBareParams ==
  proc # "called" /\ before.wrap = S_backtick =>
    /\ Len(actions) = 1
    /\ actions[1].params = before.value
    /\ run[1].st = "ok" => run[1].text = before.value

----------------------------------------------------------------------------
(* SpecConfig: the configuration file and the DEFAULT_CONFIG object of one *)
(* process                                                                 *)

S_gpt_3_5_turbo == <<"g", "p", "t", "-", "3", ".", "5", "-", "t", "u", "r", "b", "o">>
S_true == <<"t", "r", "u", "e">>
S_false == <<"f", "a", "l", "s", "e">>

String(text) == [type |-> "string", text |-> text]
Boolean(text) == [type |-> "boolean", text |-> text]
Number(text) == [type |-> "number", text |-> text]

\* const DEFAULT_CONFIG = { model: 'gpt-3.5-turbo', ..., display: { colors:
\* true, ... } }: one top-level key with a value and one with an object
DEFAULT_CONFIG == [model |-> String(S_gpt_3_5_turbo), display |-> [colors |-> Boolean(S_true)]]

\* the conversion of a string value in updateConfig
ConvertValue(value) ==
  IF value = S_true THEN Boolean(S_true)
  ELSE IF value = S_false THEN Boolean(S_false)
  ELSE IF IsNumericString(value) THEN Number(value)
  ELSE String(value)

NoFile == [exists |-> FALSE, config |-> DEFAULT_CONFIG]

File(config) == [exists |-> TRUE, config |-> config]

\* loadConfig with the object defaults in the place of DEFAULT_CONFIG:
\* without a file the defaults are saved and a shallow copy of them is
\* returned, whose display is the display object of the defaults (shared);
\* with a file, { ...DEFAULT_CONFIG, ...config } has the objects parsed
\* from the file
loadConfig(file, defaults) ==
  IF file.exists THEN [config |-> file.config, shared |-> FALSE, file |-> file]
  ELSE [config |-> defaults, shared |-> TRUE, file |-> File(defaults)]

ConfigKeys == {<<"model">>, <<"display", "colors">>}

UpdateValues == {S_x, S_true, S_false, S_5}

NoUpdates == [k \in ConfigKeys |-> <<>>]

\* the value at the path keys of a configuration object
Lookup(config, keys) ==
  IF keys = <<"model">> THEN config.model ELSE config.display.colors

\* current[keys[keys.length - 1]] = convertedValue
SetPath(config, keys, v) ==
  IF keys = <<"model">> THEN [config EXCEPT !.model = v]
  ELSE [config EXCEPT !.display.colors = v]

\* a process that has just loaded lib/config.js
Loaded == [fn |-> "import", DEFAULT_CONFIG |-> DEFAULT_CONFIG]

InitConfig ==
  /\ permissions = NoPermissions
  /\ approvedCommands = AbsentList
  /\ fs \in {NoFile, File(DEFAULT_CONFIG)}
  /\ last = ConfigCall("none", <<>>, FALSE)
  /\ probe = Loaded
  /\ actions = <<>>
  /\ run = <<>>
  /\ before = NoUpdates
  /\ proc = "idle"
  /\ response = <<>>
  /\ processedResponse = <<>>

configFrame == <<actions, run, proc, textVars>>

\* getConfig(): creates the file when there is none
GetConfig ==
  /\ fs' = loadConfig(fs, probe.DEFAULT_CONFIG).file
  /\ last' = ConfigCall("getConfig", <<>>, FALSE)
  /\ UNCHANGED <<permissions, approvedCommands, probe, before, configFrame>>

\* updateConfig(key, value) for a string value; before records, for each
\* key, the value of its latest update since the last reset
UpdateConfigKey(keys, value) ==
  LET loaded == loadConfig(fs, probe.DEFAULT_CONFIG)
      config == SetPath(loaded.config, keys, ConvertValue(value)) IN
  /\ fs' = File(config)
  /\ probe' = [probe EXCEPT !.fn = "updateConfig",
                 !.DEFAULT_CONFIG = IF loaded.shared /\ Len(keys) > 1
                                    THEN [@ EXCEPT !.display = config.display] ELSE @]
  /\ before' = [before EXCEPT ![keys] = value]
  /\ last' = ConfigCall("updateConfig", value, FALSE)
  /\ UNCHANGED <<permissions, approvedCommands, configFrame>>

\* setActionAllowedForever, setAutoApprove and addApprovedCommand: each is
\* an updateConfig of a top-level key
UpdateStore(perms, r) ==
  /\ ~r.threw
  /\ permissions' = perms
  /\ approvedCommands' = r.ac
  /\ fs' = IF perms # permissions \/ r.ac # approvedCommands
           THEN File(loadConfig(fs, probe.DEFAULT_CONFIG).config)
           ELSE loadConfig(fs, probe.DEFAULT_CONFIG).file
  /\ last' = ConfigCall("updateConfig", <<>>, FALSE)
  /\ UNCHANGED <<probe, before, configFrame>>

\* resetConfig(): saveConfig(DEFAULT_CONFIG)
ResetConfigFile ==
  /\ fs' = File(probe.DEFAULT_CONFIG)
  /\ permissions' = NoPermissions
  /\ approvedCommands' = AbsentList
  /\ before' = NoUpdates
  /\ probe' = [probe EXCEPT !.fn = "resetConfig"]
  /\ last' = ConfigCall("resetConfig", <<>>, FALSE)
  /\ UNCHANGED configFrame

\* the process ends and another one starts: the module is loaded again
Restart ==
  /\ probe # Loaded
  /\ probe' = Loaded
  /\ UNCHANGED <<permissions, approvedCommands, fs, last, before, configFrame>>

NextConfig ==
  \/ GetConfig
  \/ \E keys \in ConfigKeys, value \in UpdateValues : UpdateConfigKey(keys, value)
  \/ UpdateStore(setActionAllowedForever(permissions, "file_read"),
                 [threw |-> FALSE, ac |-> approvedCommands])
  \/ UpdateStore(setAutoApprove(permissions, "command_exec"),
                 [threw |-> FALSE, ac |-> approvedCommands])
  \/ UpdateStore(permissions, addApprovedCommand(approvedCommands, S_ls))
  \/ ResetConfigFile
  \/ Restart

SpecConfig == InitConfig /\ [][NextConfig]_vars

\* what getConfig() returns in the current state
getConfig == loadConfig(fs, probe.DEFAULT_CONFIG).config

\* C30: after resetConfig, getConfig returns the default configuration
\* whatever updates came before: every default key has its default value
\* and the keys permissions and approvedCommands are absent, so no grant
\* or auto-approve setting is left and the approved list is the default
\* list.  And after updateConfig(k, v) with a string v that is neither
\* numeric nor boolean, getConfig has v at k until k is updated again or
\* the configuration is reset.
C30_ResetRestoresDefaults ==
  /\ last.op = "resetConfig" =>
       /\ getConfig = DEFAULT_CONFIG
       /\ permissions = NoPermissions
       /\ approvedCommands = AbsentList
       /\ getApprovedCommands(approvedCommands) = DEFAULT_APPROVED_COMMANDS
  /\ \A keys \in ConfigKeys :
       before[keys] # <<>> /\ ConvertValue(before[keys]).type = "string" =>
         Lookup(getConfig, keys) = String(before[keys])

\* C31: for any file and any parsed blocks, going through the blocks in
\* reverse parse order, as applyFileDiff does, ends as going through them
\* in parse order would: both succeed with the same content, or both fail
\* with pattern-not-found.
C31_ReverseEqualsForward ==
  actions # <<>> /\ proc \in {"patched", "failed"} =>
    LET forward == ApplyBlocks(before, actions)
        reverse == ApplyBlocks(before, Reverse(actions)) IN
    /\ forward.threw = reverse.threw
    /\ ~forward.threw => forward.lines = reverse.lines

----------------------------------------------------------------------------
(* SpecRace: two sessions, each running applyFileDiff on the same file     *)

Sessions == {1, 2}

\* the diffs the sessions are given, one block each
RaceDiffs ==
  { <<ReplaceBlock(<<"a">>, S_b)>>,
    <<ReplaceBlock(<<"a">>, <<"b", "\n">>)>>,
    <<InsertBlock(<<"a">>, S_b)>>,
    <<ReplaceBlock(S_b, <<"a">>)>> }

\* a session before its call: the diff text it has, the lines it read and
\* the content it is going to write
SessionStart(diffContent) ==
  [pc |-> "called", diffContent |-> diffContent, lines |-> <<>>, newContent |-> <<>>,
   error |-> "none"]

InitRace ==
  /\ permissions = NoPermissions
  /\ approvedCommands = AbsentList
  /\ fs \in {(DiffPath :> c) : c \in DiffFiles}
  /\ last = ConfigCall("none", <<>>, FALSE)
  /\ probe = [fn |-> "applyFileDiff", filePath |-> DiffPath, original |-> fs[DiffPath]]
  /\ actions = <<>>
  /\ run \in {<<SessionStart(DiffText(d1)), SessionStart(DiffText(d2))>> :
                d1 \in RaceDiffs, d2 \in RaceDiffs}
  /\ before = <<>>
  /\ proc = "racing"
  /\ response = <<>>
  /\ processedResponse = <<>>

raceFrame == <<probe, actions, proc, textVars>>

Event(op, s) == [op |-> op, session |-> s]

\* a session that reads the file again before it writes and patches what
\* it finds there
ContentToWrite_ReadAgain(session, files) ==
  LET r == ApplyBlocks(Split(files[DiffPath]), Reverse(parseDiffBlocks(session.diffContent)))
  IN IF r.threw THEN session.newContent ELSE Join(r.lines)

\* await writeFile(filePath, newContent): newContent was computed from the
\* lines this session read
ContentToWrite(session, files) == session.newContent

\* session s: const currentContent = await readFile(filePath); split
RaceRead(s) ==
  /\ run[s].pc = "called"
  /\ \E answer \in DiffAnswers("file_read") :
       LET o == readFile(permissions, approvedCommands, fs, DiffPath, answer) IN
       /\ permissions' = o.permissions
       /\ approvedCommands' = o.approvedCommands
       /\ last' = Call("readFile", DiffPath, "file_read", o)
       /\ run' = [run EXCEPT ![s] =
                    IF o.error = "none"
                    THEN [@ EXCEPT !.pc = "read", !.lines = Split(o.value)]
                    ELSE [@ EXCEPT !.pc = "failed", !.error = o.error]]
       /\ before' = IF o.error = "none" THEN Append(before, Event("read", s)) ELSE before
  /\ UNCHANGED <<fs, raceFrame>>

\* session s: parseDiffBlocks, the loop over diffBlocks.reverse(), the join
RacePatch(s) ==
  /\ run[s].pc = "read"
  /\ LET r == ApplyBlocks(run[s].lines, Reverse(parseDiffBlocks(run[s].diffContent))) IN
       run' = [run EXCEPT ![s] =
                 IF r.threw THEN [@ EXCEPT !.pc = "failed", !.error = "PatternNotFound"]
                 ELSE [@ EXCEPT !.pc = "patched", !.newContent = Join(r.lines)]]
  /\ UNCHANGED <<permissions, approvedCommands, fs, last, before, raceFrame>>

\* session s: await writeFile(filePath, newContent)
RaceWrite(s) ==
  /\ run[s].pc = "patched"
  /\ \E answer \in DiffAnswers("file_write"), dirOk \in BOOLEAN :
       LET o == writeFile(permissions, approvedCommands, fs, DiffPath,
                          ContentToWrite(run[s], fs), dirOk, answer) IN
       /\ permissions' = o.permissions
       /\ approvedCommands' = o.approvedCommands
       /\ fs' = o.fs
       /\ last' = Call("writeFile", DiffPath, "file_write", o)
       /\ run' = [run EXCEPT ![s] =
                    IF o.error = "none" THEN [@ EXCEPT !.pc = "returned"]
                    ELSE [@ EXCEPT !.pc = "failed", !.error = o.error]]
       /\ before' = IF o.error = "none" THEN Append(before, Event("write", s)) ELSE before
  /\ UNCHANGED raceFrame

NextRace ==
  \/ \E s \in Sessions : RaceRead(s)
  \/ \E s \in Sessions : RacePatch(s)
  \/ \E s \in Sessions : RaceWrite(s)

SpecRace == InitRace /\ [][NextRace]_vars

\* both sessions have written, and both had read before either wrote
ReadsBeforeWrites ==
  /\ Len(before) = 4
  /\ before[1].op = "read" /\ before[2].op = "read"
  /\ before[3].op = "write" /\ before[4].op = "write"

\* what a session's diff makes of the original file on its own
Alone(s) ==
  ApplyBlocks(Split(probe.original), Reverse(parseDiffBlocks(run[s].diffContent)))

\* C32: two sessions that run applyFileDiff on one file are not
\* coordinated: when both reads come before both writes, the file ends as
\* the session that wrote last computed it from what it had read, and the
\* edit of the other session is lost, although each diff applied cleanly.
C32_LastWriteWins ==
  ReadsBeforeWrites =>
    /\ \A s \in Sessions : ~Alone(s).threw /\ run[s].pc = "returned"
    /\ fs[DiffPath] = Join(Alone(before[4].session).lines)

\* both wrote after both had read, their outputs differ, and the file is
\* neither the first writer's output nor what the two diffs give one after
\* the other
C32_Witness ==
  /\ ReadsBeforeWrites
  /\ Alone(1).lines # Alone(2).lines
  /\ fs[DiffPath] # Join(Alone(before[3].session).lines)
  /\ LET both == ApplyBlocks(Alone(before[3].session).lines,
                             Reverse(parseDiffBlocks(run[before[4].session].diffContent)))
     IN ~both.threw /\ fs[DiffPath] # Join(both.lines)

----------------------------------------------------------------------------
(* SpecRemove: a REMOVE_COMMAND action and the executions of the removed   *)
(* command that follow                                                     *)

S_git_log == <<"g", "i", "t", " ", "l", "o", "g">>

RemoveEntries == {S_git_status, S_git_log, S_ls, S_rm_rf}

\* the approved lists the action can find: entries of the default list and
\* one the user has approved, with no entry twice
RemoveLists ==
  {l \in UNION {[1..n -> RemoveEntries] : n \in 0..MaxEntries} : NoDuplicates(l)}

RemovePermissions ==
  {NoPermissions, setAutoApprove(NoPermissions, "command_exec"),
   setActionAllowedForever(NoPermissions, "command_exec")}

InitRemove ==
  /\ permissions \in RemovePermissions
  /\ approvedCommands \in {ArrayList(l) : l \in RemoveLists}
  /\ fs = <<>>
  /\ last = ConfigCall("none", <<>>, FALSE)
  /\ probe = NoProbe
  /\ Idle

\* handleRemoveCommand(command): removeApprovedCommand(command.trim());
\* probe keeps the command and the configuration the removal left
HandleRemoveCommand(params) ==
  LET command == handleRemoveCommand(params).calls[1].arg
      r == removeApprovedCommand(approvedCommands, command) IN
  /\ probe = NoProbe
  /\ approvedCommands' = r.ac
  /\ last' = ConfigCall("removeApprovedCommand", command, r.threw)
  /\ probe' = [fn |-> "handleRemoveCommand", command |-> command, threw |-> r.threw,
               permissions |-> permissions, approvedCommands |-> r.ac]
  /\ UNCHANGED <<permissions, fs, agentVars>>

\* the removed command is executed
ExecuteRemoved ==
  /\ probe.fn = "handleRemoveCommand"
  /\ ExecuteCommand(probe.command)

NextRemove ==
  \/ \E c \in RemoveEntries, pad \in {<<>>, <<" ">>} : HandleRemoveCommand(pad \o c)
  \/ ExecuteRemoved

SpecRemove == InitRemove /\ [][NextRemove]_vars

\* C33: after REMOVE_COMMAND for a command, with no forever grant on
\* command_exec, the command is no longer treated as approved and a later
\* execution of it prompts, whatever the command and the list were.
C33_RemovedCommandPrompts ==
  /\ probe.fn = "handleRemoveCommand" /\ ~probe.threw =>
       ~isCommandApproved(probe.approvedCommands, probe.command)
  /\ [][/\ probe.fn = "handleRemoveCommand" /\ ~probe.threw
        /\ permissions = probe.permissions
        /\ approvedCommands = probe.approvedCommands
        /\ permissions["command_exec"] # "allow_forever"
        /\ last'.op = "executeCommand"
        => last'.prompted]_vars

----------------------------------------------------------------------------
(* Further properties of the gate (SpecGate)                               *)

\* C34: resetPermissions empties the permission record, so that every
\* action type prompts again until a grant is chosen, and it leaves the
\* approved list and every other key as they were.
C34_ResetPermissionsPromptsAgain ==
  [][/\ last'.op = "resetPermissions" =>
          /\ permissions' = NoPermissions
          /\ approvedCommands' = approvedCommands
          /\ fs' = fs
     /\ permissions = NoPermissions /\ IsGatedCall(last') => last'.prompted]_vars

----------------------------------------------------------------------------
(* Properties of the flag, the recorded reply and a failed turn (SpecQuery) *)

LastTurn(history) == history[Len(history)]

\* the step ends the model call of a turn with a reply
ReplyArrives == proc = "calling" /\ proc' \in {"looping", "returned"}

Alternates(history) ==
  \A i \in 1..Len(history) :
    history[i].role = IF i % 2 = 1 THEN "user" ELSE "assistant"

\* C38: a query whose model call fails still appends one turn, the user's
\* message, and nothing takes it back; the next query sends the model two
\* user messages in a row, so user and assistant alternate in the history
\* only in runs with no failed query.
C38_FailedQueryLeavesUserTurn ==
  /\ probe.fn = "query" /\ probe.error = "AIQueryFailed" =>
       /\ Len(probe.conversationHistory) = Len(probe.sent) - 1
       /\ LastTurn(probe.conversationHistory)
            = Turn("user", probe.asked[Len(probe.asked)])
  /\ probe.fn = "query" /\ probe.afterFailure =>
       /\ probe.sent[Len(probe.sent) - 1].role = "user"
       /\ probe.sent[Len(probe.sent)].role = "user"
       /\ ~Alternates(probe.conversationHistory)
  /\ probe.failed = 0 /\ proc # "calling" => Alternates(probe.conversationHistory)

\* the first query failed and the second succeeded: user, user, assistant
C38_Witness ==
  /\ proc = "returned" /\ probe.afterFailure
  /\ probe.failed = 1 /\ probe.succeeded = 1
  /\ Len(probe.conversationHistory) = 3
  /\ probe.conversationHistory[2].role = "user"
----------------------------------------------------------------------------
(* lib/enhanced-agent.js: the tokens without params of the instruction     *)
(* preamble, found by processActions (specification SpecPreamble)          *)

\* To show approved commands / To show permissions / To reset permissions:
\* the three tokens the preamble writes with no colon and no params
PreambleTypes == {S_SHOW_COMMANDS, S_SHOW_PERMISSIONS, S_RESET_PERMISSIONS}

\* what follows the type in the reply: nothing, as the preamble writes the
\* token, or a colon and a params
PreambleTails == {<<>>, S_colon \o S_x}

\* the reply: text, the token between two marks, text
PreambleReply(pre, wrap, type, tail, post) ==
  pre \o wrap \o S_ACTION \o type \o tail \o wrap \o post

InitPreamble ==
  /\ permissions = NoPermissions
  /\ approvedCommands = AbsentList
  /\ fs = <<>>
  /\ last = ConfigCall("none", <<>>, FALSE)
  /\ probe = NoProbe
  /\ actions = <<>>
  /\ run = <<>>
  /\ \E pre \in TextBefore, wrap \in MarkdownWraps, type \in PreambleTypes,
        tail \in PreambleTails, post \in TextAfter :
       /\ before = [type |-> type, tail |-> tail]
       /\ response = PreambleReply(pre, wrap, type, tail, post)
  /\ proc = "called"
  /\ processedResponse = <<>>

\* await this.executeAction(action.type, action.params): the case of the
\* switch calls its handler, and text names the call the handler makes
Dispatch(k) ==
  /\ proc = "looping"
  /\ run[k].st = "pending"
  /\ LoopGuard(run, k)
  /\ LET plan == executeAction(CaseOf(actions[k].type), actions[k].params) IN
       run' = [run EXCEPT ![k] = [st |-> "ok", text |-> <<plan.calls[1].fn>>]]
  /\ UNCHANGED <<permissions, approvedCommands, fs, last, probe, actions, before, proc,
                 textVars>>

NextPreamble ==
  \/ FindActions
  \/ \E k \in 1..MaxPieces : k <= Len(actions) /\ Dispatch(k)
  \/ ReturnProcessed

SpecPreamble == InitPreamble /\ [][NextPreamble]_vars

\* the call the handler of a token without params makes
HandlerCall(type) ==
  CASE type = S_SHOW_COMMANDS -> "showCommands"
    [] type = S_SHOW_PERMISSIONS -> "showPermissions"
    [] type = S_RESET_PERMISSIONS -> "resetPermissions"

\* C36: a reply with ACTION:SHOW_COMMANDS, ACTION:SHOW_PERMISSIONS or
\* ACTION:RESET_PERMISSIONS written as the preamble writes them, with no
\* colon and no params after the type, has the token found by processActions
\* and its handler called.
C36_PreambleTokenDispatched ==
  before.tail = <<>> =>
    /\ proc # "called" => Len(actions) = 1 /\ actions[1].type = before.type
    /\ proc = "returned" =>
         run[1].st = "ok" /\ run[1].text = <<HandlerCall(before.type)>>
----------------------------------------------------------------------------
(* lib/file-diff.js: applyFileDiff given a diff text with no block in it   *)
(* (specification SpecNoBlock)                                             *)

S_DIFF_FILE == <<"D", "I", "F", "F", "_", "F", "I", "L", "E">>

\* the blocks a reply spells after ACTION:DIFF_FILE:a.txt:
NoBlockSources == {ReplaceBlock(<<"a">>, S_b), InsertBlock(<<"a">>, S_b)}

\* a reply with one DIFF_FILE token whose diff is the text of the blocks
DiffReply(blocks) ==
  S_ACTION \o S_DIFF_FILE \o S_colon \o DiffPath \o S_colon \o DiffText(blocks)

DiffReplies ==
  {DiffReply(blocks) : blocks \in UNION {[1..n -> NoBlockSources] : n \in 1..MaxBlocks}}

\* const diffContent = params.substring(colonIndex + 1) for the token that
\* processActions finds in the reply
OneLineDiffContent(reply) ==
  LET params == ExtractActions(reply)[1].params
      colonIndex == StringIndexOf(params, S_colon)
  IN Substring(params, colonIndex + 1, Len(params))

\* diff texts handed to applyFileDiff by a caller of the library: empty,
\* plain text, a block with no separator, a block closed by the other
\* closer, a block whose opener has text after it
BrokenDiffs ==
  { <<>>,
    S_x,
    S_SEARCH_OPEN \o <<"a">> \o S_REPLACE_CLOSE,
    S_SEARCH_OPEN \o <<"a">> \o S_SEPARATOR \o S_b \o S_INSERT_CLOSE,
    S_INSERT_OPEN \o <<"a">> \o S_SEPARATOR \o S_b \o S_REPLACE_CLOSE,
    <<"<", "<", "<", "<", "<", "<", "<", " ", "S", "E", "A", "R", "C", "H", " ">>
      \o <<"a">> \o S_SEPARATOR \o S_b \o S_REPLACE_CLOSE }

InitNoBlock ==
  /\ permissions = NoPermissions
  /\ approvedCommands = AbsentList
  /\ fs \in {<<>>} \cup {(DiffPath :> c) : c \in DiffFiles}
  /\ last = ConfigCall("none", <<>>, FALSE)
  /\ \/ \E reply \in DiffReplies :
          /\ probe = [fn |-> "applyFileDiff", filePath |-> DiffPath, written |-> <<>>,
                      read |-> <<>>, summary |-> NoSummary, preview |-> NoPreview,
                      reply |-> reply]
          /\ response = OneLineDiffContent(reply)
     \/ \E diffContent \in BrokenDiffs :
          /\ probe = [fn |-> "applyFileDiff", filePath |-> DiffPath, written |-> <<>>,
                      read |-> <<>>, summary |-> NoSummary, preview |-> NoPreview,
                      reply |-> <<>>]
          /\ response = diffContent
  /\ actions = <<>>
  /\ run = <<>>
  /\ before = <<>>
  /\ proc = "called"
  /\ processedResponse = <<>>

NextNoBlock ==
  \/ DiffReadFile
  \/ DiffApplyBlocks
  \/ DiffWriteFile
  \/ CallAgain
  \/ ReadBack

SpecNoBlock == InitNoBlock /\ [][NextNoBlock]_vars

\* the call has got past its readFile
PastRead ==
  \/ proc \in {"patched", "returned", "readBack"}
  \/ proc = "failed" /\ last.op = "writeFile"

====
